---------------------------- MODULE Spec2Model ----------------------------
(***************************************************************************)
(* remarkable-fs: the document model (documents.py) and the FUSE adapter   *)
(* (fs.py) as a state machine.                                             *)
(*                                                                         *)
(* Strings (file names, buffers) are sequences of one-character strings,   *)
(* so that splitext, startswith, replace and "%s (%d)" are computed the    *)
(* way the Python code computes them.  Paths are sequences of components   *)
(* (os.path.normpath / os.path.split applied), the root path being <<>>.   *)
(***************************************************************************)
EXTENDS Integers, Sequences, FiniteSets, TLC

VARIABLES
    status,             \* "boot" | "mounted" | "aborted": DocumentRoot.__init__
    nodes,              \* DocumentRoot.nodes: id -> node object
    rmeta,              \* remote <id>.metadata files
    rcontent,           \* remote <id>.content files
    rpayload,           \* remote <id>.<ext> files: <<id, ext>> -> bytes,
                        \* and the templates: <<TemplateDir, name>> -> bytes
    file_handles,       \* FileHandles.file_handles: fd -> node id
    free_file_handles,  \* FileHandles.free_file_handles
    next_file_handle,   \* FileHandles.next_file_handle
    session             \* connect(): where it is, and what it did so far

vars == <<status, nodes, rmeta, rcontent, rpayload,
          file_handles, free_file_handles, next_file_handle, session>>

-----------------------------------------------------------------------------
(* Bounds of the model *)

\* number of metadata mutations (version increments) in a session
MaxMutations == 2
\* number of descriptors open at once where the handle table is studied
MaxHandles == 4
\* number of renames in a row where the names a rename gives are studied
MaxRenames == 1

-----------------------------------------------------------------------------
(* Strings *)

Str_pdf == <<"p", "d", "f">>
Str_epub == <<"e", "p", "u", "b">>
Str_lines == <<"l", "i", "n", "e", "s">>
Str_pagedata == <<"p", "a", "g", "e", "d", "a", "t", "a">>
Magic_pdf == <<"%", "P", "D", "F">>
Magic_djvu == <<"A", "T", "&", "T", "F", "O", "R", "M">>
Magic_ps == <<"%", "!", "P", "S", "-", "A", "d", "o", "b", "e">>
Magic_zip == <<"P", "K">>
StripExts == {<<".", "p", "d", "f">>, <<".", "d", "j", "v", "u">>,
              <<".", "p", "s">>, <<".", "e", "p", "u", "b">>}

\* bytes.startswith / str.startswith
StartsWith(s, p) ==
    /\ Len(s) >= Len(p)
    /\ SubSeq(s, 1, Len(p)) = p

\* str.rfind of a single character, 1-based; 0 when absent
RFind(s, c) ==
    IF \E i \in 1..Len(s) : s[i] = c
    THEN CHOOSE i \in 1..Len(s) : s[i] = c /\ \A j \in (i+1)..Len(s) : s[j] # c
    ELSE 0

\* os.path.splitext: <<root, ext>>; leading dots of the basename are no extension
SplitExt(p) ==
    LET sepIndex == RFind(p, "/")
        dotIndex == RFind(p, ".")
    IN IF /\ dotIndex > sepIndex
          /\ \E i \in (sepIndex+1)..(dotIndex-1) : p[i] # "."
       THEN <<SubSeq(p, 1, dotIndex - 1), SubSeq(p, dotIndex, Len(p))>>
       ELSE <<p, <<>>>>

\* strip_extension without the test of the extension
strip_extension_any(filename) == SplitExt(filename)[1]

\* strip_extension
strip_extension(filename) ==
    LET s == SplitExt(filename)
    IN IF s[2] \in StripExts THEN s[1] ELSE filename

\* the name with its slashes left in
ReplaceSlash_kept(s) == s

\* str.replace("/", "-")
ReplaceSlash(s) == [i \in 1..Len(s) |-> IF s[i] = "/" THEN "-" ELSE s[i]]

Digit == <<"0", "1", "2", "3", "4", "5", "6", "7", "8", "9">>

\* "%d" % n for n >= 0
RECURSIVE DecStr(_)
DecStr(n) ==
    IF n < 10 THEN <<Digit[n + 1]>>
    ELSE DecStr(n \div 10) \o <<Digit[(n % 10) + 1]>>

\* "%s (%d)" % (name, n)
Disambiguated(name, n) == name \o <<" ", "(">> \o DecStr(n) \o <<")">>

-----------------------------------------------------------------------------
(* Identifiers, metadata records, node objects *)

\* the root's id: DocumentRoot.__init__ passes ""
RootId == ""
\* ids new_id() hands out, in the order the model uses them
FreshPool == <<"u1">>

\* Node.parent before link() ran (the attribute does not exist), and None
Unset == "<unset>"
None == "<None>"
\* DocumentRoot's metadata is None
NoMetadata == [none |-> TRUE]

CollectionType == "CollectionType"
DocumentType == "DocumentType"

initial_metadata(node_type, name, parent) ==
    [deleted |-> FALSE, lastModified |-> "now", metadatamodified |-> TRUE,
     modified |-> TRUE, parent |-> parent, pinned |-> FALSE, synced |-> FALSE,
     type |-> node_type, version |-> 1, visibleName |-> name]

\* Node.__init__ followed by the subclass constructors' own assignments
NodeObject(cls, metadata, file_name) ==
    [cls |-> cls, metadata |-> metadata, modified |-> FALSE,
     file_name |-> file_name, parent |-> Unset,
     children |-> <<>>, children_pathnames |-> <<>>,
     content |-> <<>>, buf |-> <<>>,
     \* the attribute "file" that @lazy sets on a Document once Document.file
     \* returned (<<>> while there is none), and DocumentRoot.templates
     file |-> <<>>, templates |-> <<>>]

IsCollection(node) == node.cls \in {"Collection", "DocumentRoot"}

\* the values of Collection.children
ChildIds(ns, c) == {ns[c].children[x] : x \in DOMAIN ns[c].children}

\* a function without one key (del d[k])
Without(f, k) == [x \in (DOMAIN f) \ {k} |-> f[x]]

-----------------------------------------------------------------------------
(* The world a handler runs in: the registry, the remote store, the number *)
(* of transport writes the handler has issued (writes), the write at which *)
(* the transport raises IOError (failAt; 0 when it does not fail), the     *)
(* value the last call returned (val) and the exception that is            *)
(* propagating (exc; "none" when none is).  While an exception propagates  *)
(* the statements that follow are skipped: every operator below leaves a   *)
(* world with an exception as it is.                                       *)

Raise(w, e) == IF w.exc # "none" THEN w ELSE [w EXCEPT !.exc = e]

\* DocumentRoot.write_file: one SFTP write
TransportDown(w) == w.failAt = w.writes + 1

write_metadata(w, id, metadata) ==
    IF w.exc # "none" THEN w
    ELSE IF TransportDown(w) THEN Raise(w, "IOError")
    ELSE [w EXCEPT !.rmeta = (id :> [st |-> "json", val |-> metadata]) @@ @,
                   !.writes = @ + 1]

write_content(w, id, content) ==
    IF w.exc # "none" THEN w
    ELSE IF TransportDown(w) THEN Raise(w, "IOError")
    ELSE [w EXCEPT !.rcontent = (id :> [st |-> "json", val |-> content]) @@ @,
                   !.writes = @ + 1]

\* a write of the payload that is lost
write_payload_lost(w, id, ext, data) == w

write_payload(w, id, ext, data) ==
    IF w.exc # "none" THEN w
    ELSE IF TransportDown(w) THEN Raise(w, "IOError")
    ELSE [w EXCEPT !.rpayload = (<<id, ext>> :> data) @@ @,
                   !.writes = @ + 1]

-----------------------------------------------------------------------------
(* Collection *)

\* add_child without its disambiguation loop
ChosenName_undisambiguated(children, file_name) == ReplaceSlash(file_name)

\* a free name that is not the least one: the count starts above the
\* number of children
ChosenName_counted(children, file_name) ==
    IF ReplaceSlash(file_name) \in DOMAIN children
    THEN Disambiguated(ReplaceSlash(file_name), Cardinality(DOMAIN children) + 2)
    ELSE ReplaceSlash(file_name)

\* the name add_child lists a child under
ChosenName(children, file_name) ==
    LET name == ReplaceSlash(file_name)
    IN IF name \in DOMAIN children
       THEN LET n == CHOOSE n \in 2..(Cardinality(DOMAIN children) + 2) :
                        /\ Disambiguated(name, n) \notin DOMAIN children
                        /\ \A m \in 2..(n-1) :
                              Disambiguated(name, m) \in DOMAIN children
            IN Disambiguated(name, n)
       ELSE name

\* the two assignments that end add_child
ListChild(node, name, c) ==
    [node EXCEPT !.children = (name :> c) @@ @,
                 !.children_pathnames = (c :> name) @@ @]

\* Collection.add_child, called on the object with id p
add_child(w, p, c) ==
    IF w.exc # "none" THEN w
    ELSE IF p \in {Unset, None} THEN Raise(w, "AttributeError")
    ELSE IF ~IsCollection(w.nodes[p]) THEN Raise(w, "AttributeError")
    ELSE [w EXCEPT !.nodes[p] =
             ListChild(@, ChosenName(@.children, w.nodes[c].file_name), c)]

\* Collection.remove_child, called on the object with id p
remove_child(w, p, c) ==
    IF w.exc # "none" THEN w
    ELSE IF p \in {Unset, None} THEN Raise(w, "AttributeError")
    ELSE IF ~IsCollection(w.nodes[p]) THEN Raise(w, "AttributeError")
    ELSE IF c \notin DOMAIN w.nodes[p].children_pathnames THEN Raise(w, "KeyError")
    ELSE [w EXCEPT !.nodes[p].children =
                       Without(@, w.nodes[p].children_pathnames[c]),
                   !.nodes[p].children_pathnames = Without(@, c)]

-----------------------------------------------------------------------------
(* Node *)

\* a setter that only stores the value
SetField_unversioned(metadata, field, val) == [metadata EXCEPT ![field] = val]

\* the setter of a _rw property
SetField(metadata, field, val) ==
    [[metadata EXCEPT !.synced = FALSE,
                      !.metadatamodified = TRUE,
                      !.version = @ + 1]
        EXCEPT ![field] = val]

rw_set(w, n, field, val) ==
    IF w.exc # "none" THEN w
    ELSE IF w.nodes[n].metadata = NoMetadata THEN Raise(w, "TypeError")
    ELSE [w EXCEPT !.nodes[n].metadata = SetField(@, field, val),
                   !.nodes[n].modified = TRUE]

\* DocumentRoot.find_node
find_node(ns, id) == IF id \in DOMAIN ns THEN id ELSE None

\* self.parent = ...
set_parent(w, n, p) == [w EXCEPT !.nodes[n].parent = p]

\* Node.link; DocumentRoot.link does nothing
link(w, n) ==
    IF w.exc # "none" THEN w
    ELSE IF w.nodes[n].cls = "DocumentRoot" THEN w
    ELSE IF find_node(w.nodes, w.nodes[n].metadata.parent) = None
    THEN set_parent(w, n, None)
    ELSE add_child(set_parent(w, n, w.nodes[n].metadata.parent),
                   w.nodes[n].metadata.parent, n)

\* self.modified = False
\* the assignment left out: the node stays modified
clear_modified_skipped(w, n) == w

\* self.modified = False
clear_modified(w, n) ==
    IF w.exc # "none" THEN w ELSE [w EXCEPT !.nodes[n].modified = FALSE]

\* Node.save
Node_save(w, n) ==
    IF w.exc # "none" THEN w
    ELSE IF w.nodes[n].modified
    THEN clear_modified(write_metadata(w, n, w.nodes[n].metadata), n)
    ELSE w

\* the if/elif chain of convert_document: the file type, and the command
\* that converts the data (None where the data is taken as it is)
detect(data) ==
    IF StartsWith(data, Magic_pdf)
    THEN [ok |-> TRUE, filetype |-> Str_pdf, convert |-> None]
    ELSE IF StartsWith(data, Magic_djvu)
    THEN [ok |-> TRUE, filetype |-> Str_pdf, convert |-> "ddjvu --format=pdf"]
    ELSE IF StartsWith(data, Magic_ps)
    THEN [ok |-> TRUE, filetype |-> Str_pdf, convert |-> "ps2pdf"]
    ELSE IF StartsWith(data, Magic_zip)
    THEN [ok |-> TRUE, filetype |-> Str_epub, convert |-> None]
    ELSE [ok |-> FALSE, filetype |-> None, convert |-> None]

\* os.system(...) and outfile.read() with the exit status ignored
run_converter_unchecked(filetype, conv) ==
    [exc |-> "none", filetype |-> filetype, data |-> conv.out]

\* os.system(...), the test of its result, and outfile.read()
run_converter(filetype, conv) ==
    IF conv.res # 0 THEN [exc |-> "IOError"]
    ELSE [exc |-> "none", filetype |-> filetype, data |-> conv.out]

\* convert_document; conv is what the external converter does when it is
\* run: its exit status res and the bytes out it leaves in the output file
convert_document(data, conv) ==
    IF ~detect(data).ok THEN [exc |-> "IOError"]
    ELSE IF detect(data).convert # None
    THEN run_converter(detect(data).filetype, conv)
    ELSE [exc |-> "none", filetype |-> detect(data).filetype, data |-> data]

RECURSIVE save(_, _, _)
RECURSIVE delete(_, _, _)

\* NewDocument.really_save from the result c of convert_document on
really_save_converted(w, n, c, conv) ==
    IF c.exc # "none"
    THEN Raise(delete(w, n, conv), c.exc)
    ELSE Node_save(write_payload(write_content(w, n, [fileType |-> c.filetype]),
                                 n, c.filetype, c.data), n)

\* NewDocument.really_save
really_save(w, n, conv) ==
    IF w.exc # "none" THEN w
    ELSE IF w.nodes[n].modified /\ Len(w.nodes[n].buf) > 0
    THEN really_save_converted(w, n, convert_document(w.nodes[n].buf, conv), conv)
    ELSE w

\* NewDocument.save without its test of the filename and the deleted flag
save_unguarded(w, n, conv) == really_save(w, n, conv)

\* Node.save, overridden by NewDocument.save
save(w, n, conv) ==
    IF w.exc # "none" THEN w
    ELSE IF w.nodes[n].cls = "NewDocument"
    THEN IF /\ ~StartsWith(w.nodes[n].file_name, <<".">>)
            /\ ~w.nodes[n].metadata.deleted
         THEN really_save(w, n, conv)
         ELSE w
    ELSE Node_save(w, n)

\* self.parent.remove_child(self)
remove_from_parent(w, n) ==
    IF w.exc # "none" THEN w ELSE remove_child(w, w.nodes[n].parent, n)

\* Node.delete
delete(w, n, conv) ==
    save(rw_set(remove_from_parent(w, n), n, "deleted", TRUE), n, conv)

\* Node.rename without self.metadata["parent"] = parent.id
move_to_unrecorded(w, n, parent, file_name) ==
    IF w.exc # "none" THEN w
    ELSE [w EXCEPT !.nodes[n].file_name = file_name,
                   !.nodes[n].parent = parent]

\* the three plain assignments of Node.rename
move_to(w, n, parent, file_name) ==
    IF w.exc # "none" THEN w
    ELSE [w EXCEPT !.nodes[n].file_name = file_name,
                   !.nodes[n].metadata.parent = parent,
                   !.nodes[n].parent = parent]

\* Node.rename without its self.save()
Node_rename_unsaved(w, n, parent, file_name, conv) ==
    add_child(move_to(rw_set(remove_from_parent(w, n), n, "visibleName",
                             strip_extension(file_name)),
                      n, parent, file_name),
              parent, n)

\* Node.rename
Node_rename(w, n, parent, file_name, conv) ==
    save(add_child(move_to(rw_set(remove_from_parent(w, n), n, "visibleName",
                                  strip_extension(file_name)),
                           n, parent, file_name),
                   parent, n),
         n, conv)

\* Node.rename, overridden by NewDocument.rename
rename(w, n, parent, file_name, conv) ==
    IF w.exc # "none" THEN w
    ELSE Node_rename(IF /\ w.nodes[n].cls = "NewDocument"
                        /\ ~StartsWith(file_name, <<".">>)
                     THEN really_save(w, n, conv)
                     ELSE w,
                     n, parent, file_name, conv)

-----------------------------------------------------------------------------
(* DocumentRoot: loading *)

\* Document.file_type: content["fileType"] or default
file_type(content, default) ==
    IF content.fileType = <<>> THEN default ELSE content.fileType

\* the class constructors as load_node_without_linking calls them: the node
\* object, or the exception the constructor raises
Construct(w, id, metadata) ==
    LET base == NodeObject("Node", metadata, metadata.visibleName)
    IN IF metadata.type = CollectionType
       THEN [exc |-> "none", node |-> [base EXCEPT !.cls = "Collection"]]
       ELSE IF metadata.type = DocumentType
       THEN IF id \notin DOMAIN w.rcontent THEN [exc |-> "IOError"]
            ELSE IF w.rcontent[id].st = "unreadable" THEN [exc |-> "IOError"]
            ELSE IF w.rcontent[id].st = "garbage" THEN [exc |-> "JSONDecodeError"]
            ELSE LET content == w.rcontent[id].val
                 IN IF "fileType" \notin DOMAIN content THEN [exc |-> "KeyError"]
                    ELSE IF <<id, file_type(content, Str_lines)>>
                                \notin DOMAIN w.rpayload
                    THEN [exc |-> "IOError"]
                    ELSE [exc |-> "none",
                          node |-> [base EXCEPT
                              !.cls = "Document",
                              !.content = content,
                              !.file_name = metadata.visibleName \o <<".">>
                                              \o file_type(content, Str_pdf)]]
       ELSE [exc |-> "none", node |-> base]

\* the try statement of load_node_without_linking and what follows it, on
\* the outcome c of classifying the node
try_classify(w, id, c) ==
    IF c.exc \in {"IOError", "JSONDecodeError"}
    THEN [w |-> w, node |-> None]
    ELSE IF c.exc # "none"
    THEN [w |-> Raise(w, c.exc), node |-> None]
    ELSE IF ~c.node.metadata.deleted
    THEN [w |-> [w EXCEPT !.nodes = (id :> c.node) @@ @], node |-> id]
    ELSE [w |-> w, node |-> None]

\* DocumentRoot.load_node_without_linking: the world with the node
\* registered, and the id it returns (None when the node is dropped)
load_node_without_linking(w, id) ==
    IF id \notin DOMAIN w.rmeta \/ w.rmeta[id].st = "unreadable"
    THEN [w |-> Raise(w, "IOError"), node |-> None]
    ELSE IF w.rmeta[id].st = "garbage"
    THEN [w |-> Raise(w, "JSONDecodeError"), node |-> None]
    ELSE try_classify(w, id, Construct(w, id, w.rmeta[id].val))

\* the end of DocumentRoot.load_node on what load_node_without_linking gave
link_loaded(r, id) ==
    IF r.w.exc # "none" \/ r.node = None THEN r.w ELSE link(r.w, id)

\* DocumentRoot.load_node
load_node(w, id) == link_loaded(load_node_without_linking(w, id), id)

\* the first loop of DocumentRoot.__init__ over the ids in paths
RECURSIVE LoadAll(_, _)
LoadAll(w, paths) ==
    IF paths = <<>> \/ w.exc # "none" THEN w
    ELSE LoadAll(load_node_without_linking(w, Head(paths)).w, Tail(paths))

\* the second loop of DocumentRoot.__init__ over nodes.values()
RECURSIVE LinkAll(_, _)
LinkAll(w, values) ==
    IF values = <<>> \/ w.exc # "none" THEN w
    ELSE IF Head(values) \notin DOMAIN w.nodes THEN LinkAll(w, Tail(values))
    ELSE LinkAll(link(w, Head(values)), Tail(values))

\* the orders a loop may visit the elements of a set in
Orders(S) ==
    {o \in [1..Cardinality(S) -> S] : \A i, j \in DOMAIN o : i # j => o[i] # o[j]}

RootObject == [NodeObject("DocumentRoot", NoMetadata, <<>>) EXCEPT !.parent = Unset]

\* DocumentRoot.__init__ on a remote store; listing is the order listdir
\* gives the metadata files in, values the order of nodes.values()
DocumentRoot_init(remote, listing, values) ==
    LinkAll(LoadAll([nodes |-> (RootId :> RootObject),
                     rmeta |-> remote.rmeta, rcontent |-> remote.rcontent,
                     rpayload |-> remote.rpayload, writes |-> 0, failAt |-> 0,
                     exc |-> "none"],
                    listing),
            values)

-----------------------------------------------------------------------------
(* fs.py: FileHandles *)

\* FileHandles.new that leaves the descriptor it reuses in the free list
fds_new_unpopped(F, file) ==
    IF F.free_file_handles # <<>>
    THEN [file_handles |-> (F.free_file_handles[Len(F.free_file_handles)]
                              :> file) @@ F.file_handles,
          free_file_handles |-> F.free_file_handles,
          next_file_handle |-> F.next_file_handle,
          fd |-> F.free_file_handles[Len(F.free_file_handles)]]
    ELSE [file_handles |-> (F.next_file_handle :> file) @@ F.file_handles,
          free_file_handles |-> F.free_file_handles,
          next_file_handle |-> F.next_file_handle + 1,
          fd |-> F.next_file_handle]

\* FileHandles.new: the table after the allocation (the descriptor is fd)
fds_new(F, file) ==
    IF F.free_file_handles # <<>>
    THEN LET fd == F.free_file_handles[Len(F.free_file_handles)]
         IN [file_handles |-> (fd :> file) @@ F.file_handles,
             free_file_handles |->
                 SubSeq(F.free_file_handles, 1, Len(F.free_file_handles) - 1),
             next_file_handle |-> F.next_file_handle,
             fd |-> fd]
    ELSE [file_handles |-> (F.next_file_handle :> file) @@ F.file_handles,
          free_file_handles |-> F.free_file_handles,
          next_file_handle |-> F.next_file_handle + 1,
          fd |-> F.next_file_handle]

\* FileHandles.close; for a descriptor that is not open the del statement
\* raises KeyError before anything is appended
fds_close(F, fd) ==
    IF fd \notin DOMAIN F.file_handles
    THEN [file_handles |-> F.file_handles,
          free_file_handles |-> F.free_file_handles,
          next_file_handle |-> F.next_file_handle,
          fd |-> fd]
    ELSE [file_handles |-> Without(F.file_handles, fd),
          free_file_handles |-> Append(F.free_file_handles, fd),
          next_file_handle |-> F.next_file_handle,
          fd |-> fd]

-----------------------------------------------------------------------------
(* fs.py: path lookup *)

\* Remarkable.node: the id a path resolves to, or the error raised
RECURSIVE node(_, _)
node(ns, path) ==
    IF path = <<>> THEN [err |-> "OK", id |-> RootId]
    ELSE LET dir == node(ns, SubSeq(path, 1, Len(path) - 1))
             file == path[Len(path)]
         IN IF dir.err # "OK" THEN dir
            ELSE IF ~IsCollection(ns[dir.id]) THEN [err |-> "TypeError", id |-> None]
            ELSE IF file \in DOMAIN ns[dir.id].children
            THEN [err |-> "OK", id |-> ns[dir.id].children[file]]
            ELSE [err |-> "ENOENT", id |-> None]

\* Remarkable.parent: the parent's id and the basename, or the error raised
parent(ns, path) ==
    IF path = <<>> THEN [err |-> "EBUSY", id |-> None, file |-> <<>>]
    ELSE LET dir == node(ns, SubSeq(path, 1, Len(path) - 1))
         IN [err |-> dir.err, id |-> dir.id, file |-> path[Len(path)]]

\* Node.name; DocumentRoot overrides it
name_of(self) ==
    IF self.cls = "DocumentRoot" THEN <<"R", "O", "O", "T">>
    ELSE self.metadata.visibleName

-----------------------------------------------------------------------------
(* fs.py: the handlers.  Each takes the world w and the handle table F and *)
(* gives the world and table it leaves, and what it returns to FUSE: "OK", *)
(* the errno of the FuseOSError it raises, or the name of an exception it  *)
(* lets through.                                                           *)

Result(w, F, r) == [w |-> w, F |-> F, ret |-> r]

\* what a handler that catches IOError as EIO returns
Errno(w, caught) ==
    IF w.exc = "none" THEN "OK"
    ELSE IF w.exc \in caught THEN "EIO"
    ELSE w.exc

\* a handler ends in the world w, having caught the exceptions in caught
Returned(w, F, caught) == Result(w, F, Errno(w, caught))

\* Collection.new_document without node.link()
new_document_unlinked(w, p, name, id) ==
    LET metadata == initial_metadata(DocumentType, strip_extension(name), p)
        obj == [NodeObject("NewDocument", metadata, name) EXCEPT !.modified = TRUE]
    IN [w EXCEPT !.nodes = (id :> obj) @@ @]

\* Collection.new_document
new_document(w, p, name, id) ==
    LET metadata == initial_metadata(DocumentType, strip_extension(name), p)
        obj == [NodeObject("NewDocument", metadata, name) EXCEPT !.modified = TRUE]
    IN link([w EXCEPT !.nodes = (id :> obj) @@ @], id)

\* return self.root.load_node(id)
load_created(w, id) == IF w.exc # "none" THEN w ELSE load_node(w, id)

\* Collection.new_collection
new_collection(w, p, name, id) ==
    load_created(write_content(write_metadata(w, id,
                     initial_metadata(CollectionType, name, p)), id, <<>>), id)

fs_create(w, F, path, id) ==
    LET p == parent(w.nodes, path)
    IN IF p.err # "OK" THEN Result(w, F, p.err)
       ELSE IF ~IsCollection(w.nodes[p.id]) THEN Result(w, F, "TypeError")
       ELSE IF p.file \in DOMAIN w.nodes[p.id].children THEN Result(w, F, "EEXIST")
       ELSE Result(new_document(w, p.id, p.file, id), fds_new(F, id), "OK")

fs_flush(w, F, fd, conv) ==
    Returned(save(w, F.file_handles[fd], conv), F, {"IOError"})

fs_release(w, F, fd) ==
    IF fd \notin DOMAIN F.file_handles THEN Result(w, F, "KeyError")
    ELSE Result(w, fds_close(F, fd), "OK")

\* the directory of the tablet that holds the templates
TemplateDir == "/usr/share/remarkable/templates"

\* b'reMarkable lines with selections and layers', shortened; a .lines file
\* is this header followed by one element for each page
expected_header == <<"r", "M">>

\* the world of a handler that reads from the transport: reads counts the
\* requests made of the transport, of which the one numbered readFailAt
\* fails, and decoded counts the calls of rM2svg.lines2cairo
Reading(w, readFailAt) ==
    [nodes |-> w.nodes, rmeta |-> w.rmeta, rcontent |-> w.rcontent,
     rpayload |-> w.rpayload, writes |-> w.writes, failAt |-> w.failAt,
     exc |-> w.exc, reads |-> 0, readFailAt |-> readFailAt, decoded |-> 0]

\* one request for the remote file key: sftp.open(...), or read() of a file
\* that sftp.open returned
sftp_request(w, key) ==
    IF w.exc # "none" THEN w
    ELSE IF w.reads + 1 = w.readFailAt \/ key \notin DOMAIN w.rpayload
    THEN Raise([w EXCEPT !.reads = @ + 1], "IOError")
    ELSE [w EXCEPT !.reads = @ + 1]

\* DocumentRoot.read_file: sftp.open(file).read()
read_file(w, key) == sftp_request(sftp_request(w, key), key)

\* the end of DocumentRoot.read_template once read_file returned: the
\* temporary file is written and recorded under the name
record_template(w, name) ==
    IF w.exc # "none" THEN w
    ELSE [w EXCEPT !.nodes[RootId].templates =
                      (name :> w.rpayload[<<TemplateDir, name>>]) @@ @]

\* DocumentRoot.read_template
read_template(w, name) ==
    IF w.exc # "none" THEN w
    ELSE IF name \in DOMAIN w.nodes[RootId].templates THEN w
    ELSE record_template(read_file(w, <<TemplateDir, name>>), name)

\* the for loop of Document.file over the lines of the .pagedata file
RECURSIVE read_templates(_, _)
read_templates(w, names) ==
    IF w.exc # "none" THEN w
    ELSE IF names = <<>> THEN w
    ELSE read_templates(IF Head(names) = "Blank" THEN w
                        ELSE read_template(w, Head(names)),
                        Tail(names))

\* the list that loop builds: None for "Blank", else the local file of the
\* template (which the model names after the template)
template_files(names) ==
    [i \in DOMAIN names |-> IF names[i] = "Blank" THEN None ELSE names[i]]

\* the lines of the .pagedata file of n, once it was read
pagedata(w, n) ==
    IF <<n, Str_pagedata>> \in DOMAIN w.rpayload
    THEN w.rpayload[<<n, Str_pagedata>>]
    ELSE <<>>

\* struct.unpack_from of one integer field: the number its bytes stand for
unpack(tok) ==
    IF \E k \in 0..9 : Digit[k + 1] = tok
    THEN CHOOSE k \in 0..9 : Digit[k + 1] = tok
    ELSE 0

\* the state of rM2svg.lines2cairo before its first page: offset counts the
\* fields consumed, pages holds what each pdf.add_page() page received, segs
\* the positions of the segment records unpacked so far, in the order read,
\* output what pdf.output() wrote
Decoding ==
    [exc |-> "none", offset |-> Len(expected_header) + 1,
     pages |-> <<>>, segs |-> <<>>, output |-> <<>>]

\* struct.unpack_from(fmt, data, offset) past the end raises struct.error
Short(st, data, size) == st.offset + size > Len(data)

\* a pass that appends the record and leaves offset where it was
read_segment_stalled(st, data) ==
    IF st.exc # "none" THEN st
    ELSE IF Short(st, data, 1) THEN [st EXCEPT !.exc = "struct.error"]
    ELSE [st EXCEPT !.segs = Append(@, st.offset + 1)]

\* one pass of "for segment in range(nsegments)": unpack '<fffff' at offset,
\* append it to segments, advance offset
read_segment(st, data) ==
    IF st.exc # "none" THEN st
    ELSE IF Short(st, data, 1) THEN [st EXCEPT !.exc = "struct.error"]
    ELSE [st EXCEPT !.segs = Append(@, st.offset + 1), !.offset = @ + 1]

RECURSIVE read_segments(_, _, _)
read_segments(st, data, nsegments) ==
    IF st.exc # "none" \/ nsegments = 0 THEN st
    ELSE read_segments(read_segment(st, data), data, nsegments - 1)

\* stroke_colour has the keys 0, 1 and 2; the eraser draws in colour 2
colour_key(pen, colour) == IF pen = 6 THEN 2 ELSE colour

\* "for xpos, ypos, pressure, tilt, i_unk2 in segments": each segment looks
\* up stroke_colour[colour]; every one after the first draws a pdf.line
RECURSIVE draw_lines(_, _)
draw_lines(page, n) ==
    IF n <= 1 THEN page ELSE draw_lines(Append(page, "l"), n - 1)

draw_stroke(st, pen, colour, nsegments) ==
    IF st.exc # "none" \/ nsegments = 0 THEN st
    ELSE IF colour_key(pen, colour) \notin 0..2
    THEN [st EXCEPT !.exc = "KeyError"]
    ELSE [st EXCEPT !.pages[Len(st.pages)] = draw_lines(@, nsegments)]

\* one pass of "for stroke in range(nstrokes)": unpack '<IIIfI' (pen,
\* colour, nsegments), read the segments, then draw them
read_stroke(st, data) ==
    IF st.exc # "none" THEN st
    ELSE IF Short(st, data, 3) THEN [st EXCEPT !.exc = "struct.error"]
    ELSE draw_stroke(
             read_segments([st EXCEPT !.offset = @ + 3], data,
                           unpack(data[st.offset + 3])),
             unpack(data[st.offset + 1]), unpack(data[st.offset + 2]),
             unpack(data[st.offset + 3]))

RECURSIVE read_strokes(_, _, _)
read_strokes(st, data, nstrokes) ==
    IF st.exc # "none" \/ nstrokes = 0 THEN st
    ELSE read_strokes(read_stroke(st, data), data, nstrokes - 1)

\* one pass of "for layer in range(nlayers)": unpack '<I' (nstrokes)
read_layer(st, data) ==
    IF st.exc # "none" THEN st
    ELSE IF Short(st, data, 1) THEN [st EXCEPT !.exc = "struct.error"]
    ELSE read_strokes([st EXCEPT !.offset = @ + 1], data,
                      unpack(data[st.offset + 1]))

RECURSIVE read_layers(_, _, _)
read_layers(st, data, nlayers) ==
    IF st.exc # "none" \/ nlayers = 0 THEN st
    ELSE read_layers(read_layer(st, data), data, nlayers - 1)

\* one pass of "for page in range(npages)": pdf.add_page(), the template
\* popped from the list drawn first when there is one, then unpack '<BBH'
\* (nlayers) and the layers
read_page(st, data, template) ==
    IF st.exc # "none" THEN st
    ELSE IF Short(st, data, 1)
    THEN [st EXCEPT !.exc = "struct.error",
                    !.pages = Append(@, <<template>>)]
    ELSE read_layers([st EXCEPT !.offset = @ + 1,
                                !.pages = Append(@, <<template>>)],
                     data, unpack(data[st.offset + 1]))

RECURSIVE read_pages(_, _, _, _)
read_pages(st, data, npages, templates) ==
    IF st.exc # "none" \/ npages = 0 THEN st
    ELSE read_pages(
             read_page(st, data,
                       IF templates # <<>> /\ Head(templates) # None
                       THEN Head(templates) ELSE "page"),
             data, npages - 1,
             IF templates # <<>> THEN Tail(templates) ELSE templates)

RECURSIVE Flatten(_)
Flatten(ss) == IF ss = <<>> THEN <<>> ELSE Head(ss) \o Flatten(Tail(ss))

\* pdf.output(output_name, "F"), reached when no exception was raised:
\* every page in order, each over its template while the list had one left
pdf_output(st) ==
    IF st.exc # "none" THEN st
    ELSE [st EXCEPT !.output = Magic_pdf \o Flatten(st.pages)]

\* rM2svg.lines2cairo once input_file.read() returned: a file shorter than
\* the header and the page count, or with another header, or with no page,
\* makes abort() call sys.exit before a page exists
lines2cairo(data, templates) ==
    IF \/ Len(data) < Len(expected_header) + 1
       \/ ~StartsWith(data, expected_header)
       \/ unpack(data[Len(expected_header) + 1]) < 1
    THEN [Decoding EXCEPT !.exc = "SystemExit", !.offset = 0]
    ELSE pdf_output(read_pages(Decoding, data,
                               unpack(data[Len(expected_header) + 1]),
                               templates))

\* the PDF convert_lines_file opens after lines2cairo returned
rendered(data, templates) == lines2cairo(data, templates).output

\* the return of Document.file, which @lazy stores; an exception out of
\* lines2cairo leaves no file
lines2cairo_read(w, n, templates) ==
    IF w.exc # "none" THEN w
    ELSE IF lines2cairo(w.rpayload[<<n, Str_lines>>], templates).exc # "none"
    THEN Raise(w, lines2cairo(w.rpayload[<<n, Str_lines>>], templates).exc)
    ELSE [w EXCEPT !.nodes[n].file =
             <<[remote |-> FALSE,
                data |-> rendered(w.rpayload[<<n, Str_lines>>], templates)]>>]

\* convert_lines_file
convert_lines_file(w, n, templates) ==
    IF w.exc # "none" THEN w
    ELSE lines2cairo_read(sftp_request([w EXCEPT !.decoded = @ + 1],
                                       <<n, Str_lines>>),
                          n, templates)

\* the return of Document.file for a file that is not a notebook: the
\* remote file that sftp.open returned
opened_file(w, n, ext) ==
    IF w.exc # "none" THEN w
    ELSE [w EXCEPT !.nodes[n].file =
             <<[remote |-> TRUE, data |-> w.rpayload[<<n, ext>>]]>>]

\* Document.file when the attribute is there although it need not be
\* computed: it is computed again
Document_file_uncached(w, n) ==
    IF w.exc # "none" THEN w
    ELSE IF file_type(w.nodes[n].content, Str_lines) = Str_lines
    THEN convert_lines_file(
             read_templates(read_file(sftp_request(w, <<n, Str_lines>>),
                                      <<n, Str_pagedata>>),
                            pagedata(w, n)),
             n, template_files(pagedata(w, n)))
    ELSE opened_file(sftp_request(w, <<n, w.nodes[n].content.fileType>>),
                     n, w.nodes[n].content.fileType)

\* Document.file under @lazy: computed when the attribute is not there
Document_file(w, n) ==
    IF w.exc # "none" THEN w
    ELSE IF w.nodes[n].file # <<>> THEN w
    ELSE IF file_type(w.nodes[n].content, Str_lines) = Str_lines
    THEN convert_lines_file(
             read_templates(read_file(sftp_request(w, <<n, Str_lines>>),
                                      <<n, Str_pagedata>>),
                            pagedata(w, n)),
             n, template_files(pagedata(w, n)))
    ELSE opened_file(sftp_request(w, <<n, w.nodes[n].content.fileType>>),
                     n, w.nodes[n].content.fileType)

\* file.seek(offset) then file.read(length), and buf[offset:offset+length]
Slice(data, offset, length) ==
    SubSeq(data, offset + 1,
           IF offset + length > Len(data) THEN Len(data) ELSE offset + length)

\* self.file.seek(offset); self.file.read(length): a remote file is asked
\* for the bytes
file_read(w, n) ==
    IF w.exc # "none" THEN w
    ELSE IF w.nodes[n].file[1].remote
    THEN sftp_request(w, <<n, w.nodes[n].content.fileType>>)
    ELSE w

\* what a read handler returns: the bytes, or the exception
ReadResult(w, F, data) ==
    [w |-> w, F |-> F, ret |-> Errno(w, {}),
     data |-> IF w.exc = "none" THEN data ELSE <<>>]

\* Document.read and NewDocument.read
Node_read(w, F, n, offset, length) ==
    IF w.nodes[n].cls = "NewDocument"
    THEN ReadResult(w, F, Slice(w.nodes[n].buf, offset, length))
    ELSE IF w.nodes[n].cls # "Document"
    THEN ReadResult(Raise(w, "AttributeError"), F, <<>>)
    ELSE ReadResult(file_read(Document_file(w, n), n), F,
                    Slice(IF file_read(Document_file(w, n), n).exc = "none"
                          THEN Document_file(w, n).nodes[n].file[1].data
                          ELSE <<>>,
                          offset, length))

fs_read(w, F, size, offset, fd) ==
    IF fd \notin DOMAIN F.file_handles
    THEN ReadResult(Raise(w, "KeyError"), F, <<>>)
    ELSE IF IsCollection(w.nodes[F.file_handles[fd]])
    THEN ReadResult(Raise(w, "EISDIR"), F, <<>>)
    ELSE Node_read(w, F, F.file_handles[fd], offset, size)

\* BytesIO.seek(offset) then BytesIO.write(data): a gap is filled with NULs
BytesIO_write(buf, offset, data) ==
    LET end == offset + Len(data)
        len == IF end > Len(buf) THEN end ELSE Len(buf)
    IN [i \in 1..len |->
          IF i > offset /\ i <= end THEN data[i - offset]
          ELSE IF i <= Len(buf) THEN buf[i]
          ELSE "NUL"]

fs_write(w, F, data, offset, fd) ==
    LET n == F.file_handles[fd]
    IN IF IsCollection(w.nodes[n]) THEN Result(w, F, "EISDIR")
       ELSE IF w.nodes[n].cls # "NewDocument" THEN Result(w, F, "AttributeError")
       ELSE Result([w EXCEPT !.nodes[n].buf = BytesIO_write(@, offset, data)],
                   F, "OK")

fs_mkdir(w, F, path, id) ==
    LET p == parent(w.nodes, path)
    IN IF p.err # "OK" THEN Result(w, F, p.err)
       ELSE IF ~IsCollection(w.nodes[p.id]) THEN Result(w, F, "TypeError")
       ELSE IF p.file \in DOMAIN w.nodes[p.id].children THEN Result(w, F, "EEXIST")
       ELSE Returned(new_collection(w, p.id, p.file, id), F, {})

\* Remarkable.rmdir without the test for children
fs_rmdir_unchecked(w, F, path, conv) ==
    LET n == node(w.nodes, path)
    IN IF n.err # "OK" THEN Result(w, F, n.err)
       ELSE IF ~IsCollection(w.nodes[n.id]) THEN Result(w, F, "ENOTDIR")
       ELSE Returned(delete(w, n.id, conv), F, {})

\* Remarkable.rmdir
fs_rmdir(w, F, path, conv) ==
    LET n == node(w.nodes, path)
    IN IF n.err # "OK" THEN Result(w, F, n.err)
       ELSE IF ~IsCollection(w.nodes[n.id]) THEN Result(w, F, "ENOTDIR")
       ELSE IF DOMAIN w.nodes[n.id].children # {} THEN Result(w, F, "ENOTEMPTY")
       ELSE Returned(delete(w, n.id, conv), F, {})

\* the FuseOSError(EEXIST) as "except IOError" would turn it into EIO if it
\* caught it
overwrite_refused_caught(w, F) == Result(w, F, "EIO")

\* raise FuseOSError(EEXIST) inside the try block: the package runs on
\* Python 2 only (print statements), where OSError is no IOError, so the
\* handler's "except IOError" lets it through
overwrite_refused(w, F) == Result(w, F, "EEXIST")

fs_rename(w, F, old, new, conv) ==
    LET old_node == node(w.nodes, old)
        p == parent(w.nodes, new)
    IN IF old_node.err # "OK" THEN Result(w, F, old_node.err)
       ELSE IF p.err # "OK" THEN Result(w, F, p.err)
       ELSE IF ~IsCollection(w.nodes[p.id]) THEN Result(w, F, "AttributeError")
       ELSE IF p.file \notin DOMAIN w.nodes[p.id].children
       THEN \* a move with a filename
            Returned(rename(w, old_node.id, p.id, p.file, conv), F, {"IOError"})
       ELSE LET new_node == w.nodes[p.id].children[p.file]
            IN IF IsCollection(w.nodes[new_node])
               THEN \* a move into a directory
                    Returned(rename(w, old_node.id, new_node,
                                    name_of(w.nodes[old_node.id]), conv),
                             F, {"IOError"})
               ELSE overwrite_refused(w, F)

fs_unlink(w, F, path, conv) ==
    LET n == node(w.nodes, path)
    IN IF n.err # "OK" THEN Result(w, F, n.err)
       ELSE IF IsCollection(w.nodes[n.id]) THEN Result(w, F, "EISDIR")
       ELSE Returned(delete(w, n.id, conv), F, {})

\* flags & bit, for a one-bit mask
FlagSet(flags, bit) == (flags \div bit) % 2 = 1

\* posix.O_WRONLY and posix.O_RDWR
O_WRONLY == 1
O_RDWR == 2

\* the test of Remarkable.open without its O_RDWR half
open_refused_wronly(flags, cls) == FlagSet(flags, O_WRONLY)

\* the test of Remarkable.open: "a or b and c" reads as "a or (b and c)"
open_refused(flags, cls) ==
    \/ FlagSet(flags, O_WRONLY)
    \/ FlagSet(flags, O_RDWR) /\ cls # "NewDocument"

\* Remarkable.open
fs_open(w, F, path, flags) ==
    LET n == node(w.nodes, path)
    IN IF n.err # "OK" THEN Result(w, F, n.err)
       ELSE IF open_refused(flags, w.nodes[n.id].cls)
       THEN Result(w, F, "EPERM")
       ELSE Result(w, fds_new(F, n.id), "OK")

\* BytesIO.truncate(length): the buffer is cut, never extended
BytesIO_truncate(buf, length) ==
    IF length < Len(buf) THEN SubSeq(buf, 1, length) ELSE buf

\* Remarkable.truncate on the node a path or a descriptor gave
truncate_node(w, F, n, length) ==
    IF w.nodes[n].cls = "NewDocument"
    THEN Result([w EXCEPT !.nodes[n].buf = BytesIO_truncate(@, length)], F, "OK")
    ELSE Result(w, F, "EPERM")

\* Remarkable.truncate; fd is <<>> for None (the kernel passes no
\* descriptor) and <<d>> for the descriptor d
fs_truncate(w, F, path, length, fd) ==
    IF fd = <<>>
    THEN IF node(w.nodes, path).err # "OK"
         THEN Result(w, F, node(w.nodes, path).err)
         ELSE truncate_node(w, F, node(w.nodes, path).id, length)
    ELSE truncate_node(w, F, F.file_handles[fd[1]], length)

\* Remarkable.getxattr: the bytes returned, or the error
fs_getxattr(w, F, path, name) ==
    IF name # "user.bookmarked" THEN Result(w, F, "")
    ELSE IF node(w.nodes, path).err # "OK"
    THEN Result(w, F, node(w.nodes, path).err)
    ELSE IF w.nodes[node(w.nodes, path).id].metadata = NoMetadata
    THEN Result(w, F, "TypeError")
    ELSE IF w.nodes[node(w.nodes, path).id].metadata.pinned
    THEN Result(w, F, "yes")
    ELSE Result(w, F, "no")

fs_setxattr(w, F, path, name, value, conv) ==
    IF name # "user.bookmarked" THEN Result(w, F, "OK")
    ELSE IF value \notin {"yes", "true", "1", "no", "false", "0"}
    THEN Result(w, F, "ENOTSUP")
    ELSE LET pinned == value \in {"yes", "true", "1"}
             n == node(w.nodes, path)
         IN IF n.err # "OK" THEN Result(w, F, n.err)
            ELSE Returned(save(rw_set(w, n.id, "pinned", pinned), n.id, conv),
                          F, {})

-----------------------------------------------------------------------------
(* What the environment supplies *)

\* basenames the caller creates and renames to
NameInputs == {<<"b", ".", "p", "d", "f">>, <<".", "t">>}
\* data the caller writes, at offset 0
DataInputs == {Magic_pdf, <<"h", "i">>}
\* the same where the transport may fail: two formats the tablet takes
DataInputsFault == {Magic_pdf, Magic_zip}
\* the attributes the caller sets: one value that sets the bookmark, one that
\* clears it, one setxattr refuses, and an attribute it ignores
XattrInputs ==
    ({"user.bookmarked"} \X {"yes", "0", "maybe"}) \cup {<<"user.other", "yes">>}
\* the external converter: exit status and output
Convs == {[res |-> 0, out |-> Magic_pdf], [res |-> 1, out |-> <<>>]}
\* the write of a handler at which the transport may fail (0: at none),
\* given what the handler does when none fails
Faults(r) == 0..r.w.writes

\* a loaded record as the tablet leaves it
LoadedMetadata(type, name, parentId) ==
    [deleted |-> FALSE, lastModified |-> "t0", metadatamodified |-> FALSE,
     modified |-> FALSE, parent |-> parentId, pinned |-> FALSE, synced |-> TRUE,
     type |-> type, version |-> 1, visibleName |-> name]

JsonFile(val) == [st |-> "json", val |-> val]

\* the tablet at mount: a folder "f" and a PDF document "b" under the root
MountedRemote ==
    [rmeta |-> ("F" :> JsonFile(LoadedMetadata(CollectionType, <<"f">>, RootId)))
            @@ ("D" :> JsonFile(LoadedMetadata(DocumentType, <<"b">>, RootId))),
     rcontent |-> ("F" :> JsonFile(<<>>))
               @@ ("D" :> JsonFile([fileType |-> Str_pdf])),
     rpayload |-> (<<"D", Str_pdf>> :> Magic_pdf)]

\* a tablet that holds the folder "f" only
FolderRemote ==
    [rmeta |-> ("F" :> JsonFile(LoadedMetadata(CollectionType, <<"f">>, RootId))),
     rcontent |-> ("F" :> JsonFile(<<>>)),
     rpayload |-> <<>>]

\* the paths that resolve below a collection, relative to it
RECURSIVE PathsBelow(_, _, _)
PathsBelow(ns, id, depth) ==
    IF depth = 0 \/ ~IsCollection(ns[id]) THEN {}
    ELSE UNION {{<<x>>} \cup {<<x>> \o q :
                      q \in PathsBelow(ns, ns[id].children[x], depth - 1)} :
                x \in DOMAIN ns[id].children}

ExistingPaths(ns) == {<<>>} \cup PathsBelow(ns, RootId, Cardinality(DOMAIN ns))

\* the paths the kernel passes: those that resolve, and a new basename in
\* a directory that resolves
PathInputs(ns, Names) ==
    ExistingPaths(ns) \cup
    {q \o <<x>> : q \in {e \in ExistingPaths(ns) : IsCollection(ns[node(ns, e).id])},
                  x \in Names}

\* new_id(): uuid4 never repeats; the model hands out the pool in order
new_id ==
    LET used == DOMAIN nodes \cup DOMAIN rmeta
        free == {i \in DOMAIN FreshPool : FreshPool[i] \notin used}
    IN IF free = {} THEN None
       ELSE FreshPool[CHOOSE i \in free : \A j \in free : i <= j]

\* the commands connect() sends to the tablet
on_start == "systemctl stop xochitl"
on_finish == "systemctl restart xochitl"
\* "while /sbin/ip a s usb0 | grep -q 10.11.99; do sleep 1; done; %s; kill $PPID"
on_unplug == "while usb0; do sleep 1; done; systemctl restart xochitl; kill $PPID"

\* connect() while the block of its caller runs: called without an address,
\* the first ssh.connect having succeeded. pc is the statement connect() is
\* at, handlers the signals that raise_exception was installed for, calls
\* the calls of ssh.exec_command with their outcomes, and exc the exception
\* that is propagating, delivered the signal that was delivered
Yielded ==
    [pc |-> "yield", addr |-> None, handlers |-> {"SIGTERM", "SIGHUP"},
     calls |-> <<<<on_start, "ok">>, <<on_unplug, "ok">>>>, exc |-> "none",
     delivered |-> None]

-----------------------------------------------------------------------------
(* The state machine *)

World(failAt) ==
    [nodes |-> nodes, rmeta |-> rmeta, rcontent |-> rcontent,
     rpayload |-> rpayload, writes |-> 0, failAt |-> failAt, exc |-> "none"]

Fds ==
    [file_handles |-> file_handles, free_file_handles |-> free_file_handles,
     next_file_handle |-> next_file_handle]

\* the external converter runs only on a DjVu or PostScript buffer
ConvInputs(ns) ==
    IF \E n \in DOMAIN ns :
          StartsWith(ns[n].buf, Magic_djvu) \/ StartsWith(ns[n].buf, Magic_ps)
    THEN Convs
    ELSE {[res |-> 0, out |-> Magic_pdf]}

\* the version increments since the records were created (at version 1)
RECURSIVE Mutations(_, _)
Mutations(ns, ids) ==
    IF ids = {} THEN 0
    ELSE LET n == CHOOSE n \in ids : TRUE
         IN (IF ns[n].metadata = NoMetadata THEN 0
             ELSE ns[n].metadata.version - 1)
            + Mutations(ns, ids \ {n})

\* the descriptors the model lets be open at once
FdPool == {0}

\* the model's bounds, as a guard on what a handler leaves
WithinBounds(r) ==
    /\ None \notin DOMAIN r.w.nodes
    /\ None \notin DOMAIN r.w.rmeta
    /\ Mutations(r.w.nodes, DOMAIN r.w.nodes) <= MaxMutations
    /\ DOMAIN r.F.file_handles \subseteq FdPool

Commit(r) ==
    /\ WithinBounds(r)
    /\ nodes' = r.w.nodes
    /\ rmeta' = r.w.rmeta
    /\ rcontent' = r.w.rcontent
    /\ rpayload' = r.w.rpayload
    /\ file_handles' = r.F.file_handles
    /\ free_file_handles' = r.F.free_file_handles
    /\ next_file_handle' = r.F.next_file_handle
    /\ UNCHANGED <<status, session>>

\* the state DocumentRoot.__init__ leaves on a remote store, nothing open
Mounted(remote) ==
    /\ status = "mounted"
    /\ \E values \in Orders(DOMAIN remote.rmeta) :
          LET w == DocumentRoot_init(remote, values, values)
          IN /\ w.exc = "none"
             /\ nodes = w.nodes
    /\ rmeta = remote.rmeta
    /\ rcontent = remote.rcontent
    /\ rpayload = remote.rpayload
    /\ file_handles = <<>>
    /\ free_file_handles = <<>>
    /\ next_file_handle = 0
    /\ session = Yielded

Init == Mounted(MountedRemote)

Create(path) ==
    /\ status = "mounted"
    /\ Commit(fs_create(World(0), Fds, path, new_id))

Flush(fd, conv, failAt) ==
    /\ status = "mounted"
    /\ fd \in DOMAIN file_handles
    /\ failAt \in Faults(fs_flush(World(0), Fds, fd, conv))
    /\ Commit(fs_flush(World(failAt), Fds, fd, conv))

Release(fd) ==
    /\ status = "mounted"
    /\ fd \in DOMAIN file_handles
    /\ Commit(fs_release(World(0), Fds, fd))

Write(fd, data, offset) ==
    /\ status = "mounted"
    /\ fd \in DOMAIN file_handles
    /\ Commit(fs_write(World(0), Fds, data, offset, fd))

Mkdir(path, failAt) ==
    /\ status = "mounted"
    /\ failAt \in Faults(fs_mkdir(World(0), Fds, path, new_id))
    /\ Commit(fs_mkdir(World(failAt), Fds, path, new_id))

Rmdir(path, conv, failAt) ==
    /\ status = "mounted"
    /\ failAt \in Faults(fs_rmdir(World(0), Fds, path, conv))
    /\ Commit(fs_rmdir(World(failAt), Fds, path, conv))

Rename(old, new, conv, failAt) ==
    /\ status = "mounted"
    /\ failAt \in Faults(fs_rename(World(0), Fds, old, new, conv))
    /\ Commit(fs_rename(World(failAt), Fds, old, new, conv))

Unlink(path, conv, failAt) ==
    /\ status = "mounted"
    /\ failAt \in Faults(fs_unlink(World(0), Fds, path, conv))
    /\ Commit(fs_unlink(World(failAt), Fds, path, conv))

SetXattr(path, name, value, conv, failAt) ==
    /\ status = "mounted"
    /\ failAt \in Faults(fs_setxattr(World(0), Fds, path, name, value, conv))
    /\ Commit(fs_setxattr(World(failAt), Fds, path, name, value, conv))

\* what the kernel passes truncate: a path and no descriptor, or an open
\* descriptor (and a path the handler then does not look at)
TruncateInputs ==
    {<<path, <<>>>> : path \in ExistingPaths(nodes)}
    \cup {<<<<>>, <<fd>>>> : fd \in DOMAIN file_handles}

Open(path, flags) ==
    /\ status = "mounted"
    /\ Commit(fs_open(World(0), Fds, path, flags))

Truncate(path, length, fd) ==
    /\ status = "mounted"
    /\ <<path, fd>> \in TruncateInputs
    /\ Commit(fs_truncate(World(0), Fds, path, length, fd))

\* one request of the kernel: Names are the basenames it may create, Datas
\* what it may write, Xattrs the attributes it may set, and FailAts the
\* writes of the handler at which the transport may fail
Request(Names, Datas, Xattrs, FailAts) ==
    \/ \E path \in PathInputs(nodes, Names) : Create(path)
    \/ \E fd \in DOMAIN file_handles, conv \in ConvInputs(nodes),
          failAt \in FailAts : Flush(fd, conv, failAt)
    \/ \E fd \in DOMAIN file_handles : Release(fd)
    \/ \E fd \in DOMAIN file_handles, data \in Datas : Write(fd, data, 0)
    \/ \E path \in PathInputs(nodes, Names), failAt \in FailAts :
          Mkdir(path, failAt)
    \/ \E path \in ExistingPaths(nodes), conv \in ConvInputs(nodes),
          failAt \in FailAts : Rmdir(path, conv, failAt)
    \/ \E old \in ExistingPaths(nodes), new \in PathInputs(nodes, Names),
          conv \in ConvInputs(nodes), failAt \in FailAts :
          Rename(old, new, conv, failAt)
    \/ \E path \in ExistingPaths(nodes), conv \in ConvInputs(nodes),
          failAt \in FailAts : Unlink(path, conv, failAt)
    \/ \E path \in ExistingPaths(nodes), x \in Xattrs,
          conv \in ConvInputs(nodes), failAt \in FailAts :
          SetXattr(path, x[1], x[2], conv, failAt)

\* open and truncate, which write nothing to the tablet
Access(Flags, Lengths) ==
    \/ \E path \in ExistingPaths(nodes), flags \in Flags : Open(path, flags)
    \/ \E t \in TruncateInputs, length \in Lengths :
          Truncate(t[1], length, t[2])

\* open flags: O_RDONLY, O_WRONLY, O_RDWR
FlagInputs == {0, O_WRONLY, O_RDWR}
\* lengths the caller truncates to
LengthInputs == {0, 2}

\* the transport never fails
Next == Request(NameInputs, DataInputs, XattrInputs, {0})

Spec == Init /\ [][Next]_vars

\* the same tablet, with open and truncate among the requests: any node may
\* be held open, one descriptor at a time
NextAccess ==
    \/ Request({<<"b", ".", "p", "d", "f">>}, {Magic_pdf},
               {<<"user.bookmarked", "yes">>}, {0})
    \/ Access(FlagInputs, LengthInputs)

SpecAccess == Init /\ [][NextAccess]_vars

\* the handle table alone: nodes are opened read-only and released, up to
\* MaxHandles descriptors open at once
CommitHandles(r) ==
    /\ Cardinality(DOMAIN r.F.file_handles) <= MaxHandles
    /\ file_handles' = r.F.file_handles
    /\ free_file_handles' = r.F.free_file_handles
    /\ next_file_handle' = r.F.next_file_handle
    /\ UNCHANGED <<status, nodes, rmeta, rcontent, rpayload, session>>

OpenHandle(path) ==
    /\ status = "mounted"
    /\ CommitHandles(fs_open(World(0), Fds, path, 0))

ReleaseHandle(fd) ==
    /\ status = "mounted"
    /\ fd \in DOMAIN file_handles
    /\ CommitHandles(fs_release(World(0), Fds, fd))

NextHandles ==
    \/ \E path \in ExistingPaths(nodes) : OpenHandle(path)
    \/ \E fd \in DOMAIN file_handles : ReleaseHandle(fd)

SpecHandles == Init /\ [][NextHandles]_vars

\* the transport may fail at any write of a handler (none issues more than
\* four); the tablet holds one folder
InitFault == Mounted(FolderRemote)

NextFault ==
    Request({<<"b", ".", "p", "d", "f">>}, DataInputsFault,
            {<<"user.bookmarked", "yes">>, <<"user.bookmarked", "no">>}, 0..4)

SpecFault == InitFault /\ [][NextFault]_vars

\* every kind of data an upload may hold: the four formats convert_document
\* knows, bare and followed by more, a prefix of each magic that is one
\* byte short, data of no known format, and none
ConvertMagics == {Magic_pdf, Magic_djvu, Magic_ps, Magic_zip}
ConvertData ==
    ConvertMagics
    \cup {m \o <<"x">> : m \in ConvertMagics}
    \cup {SubSeq(m, 1, Len(m) - 1) : m \in ConvertMagics}
    \cup {<<"h", "i">>, <<>>}

\* the state after create(path) and write(data) at offset 0, on the tablet
\* that holds the folder
InitConvert ==
    /\ status = "mounted"
    /\ \E path \in {<<name>> : name \in NameInputs}
                    \cup {<<<<"f">>, name>> : name \in NameInputs},
          data \in ConvertData :
          LET w == [DocumentRoot_init(FolderRemote, <<"F">>, <<"F">>)
                        EXCEPT !.writes = 0, !.failAt = 0]
              F == [file_handles |-> <<>>, free_file_handles |-> <<>>,
                    next_file_handle |-> 0]
              c == fs_create(w, F, path, FreshPool[1])
              r == fs_write(c.w, c.F, data, 0, c.F.fd)
          IN /\ nodes = r.w.nodes
             /\ rmeta = r.w.rmeta
             /\ rcontent = r.w.rcontent
             /\ rpayload = r.w.rpayload
             /\ file_handles = r.F.file_handles
             /\ free_file_handles = r.F.free_file_handles
             /\ next_file_handle = r.F.next_file_handle
             /\ session = Yielded

\* the upload is flushed, with either outcome of the converter, and released
NextConvert ==
    \/ \E fd \in DOMAIN file_handles, conv \in Convs : Flush(fd, conv, 0)
    \/ \E fd \in DOMAIN file_handles : Release(fd)

SpecConvert == InitConvert /\ [][NextConvert]_vars

\* filenames a rename may give: each extension that is stripped, one that
\* is not, one in capitals, none, two in either order, a doubled dot, and
\* a dot-file whose name is an extension
RenameNames ==
    {<<"c">> \o e : e \in StripExts}
    \cup {<<"c", ".", "t", "x", "t">>, <<"c", ".", "P", "D", "F">>, <<"c">>,
          <<"c", ".", "p", "d", "f", ".", "t", "x", "t">>,
          <<"c", ".", "t", "x", "t", ".", "p", "d", "f">>,
          <<"c", ".", ".", "p", "d", "f">>,
          <<".", "p", "d", "f">>}

\* the state after create("/.t") and write(data) at offset 0, on the tablet
\* that holds the folder and the document
InitRename ==
    /\ status = "mounted"
    /\ \E data \in DataInputs \cup {Magic_djvu, <<>>} :
          LET w == [DocumentRoot_init(MountedRemote, <<"F", "D">>,
                                      <<"F", "D">>)
                        EXCEPT !.writes = 0, !.failAt = 0]
              F == [file_handles |-> <<>>, free_file_handles |-> <<>>,
                    next_file_handle |-> 0]
              c == fs_create(w, F, <<<<".", "t">>>>, FreshPool[1])
              r == fs_write(c.w, c.F, data, 0, c.F.fd)
          IN /\ nodes = r.w.nodes
             /\ rmeta = r.w.rmeta
             /\ rcontent = r.w.rcontent
             /\ rpayload = r.w.rpayload
             /\ file_handles = r.F.file_handles
             /\ free_file_handles = r.F.free_file_handles
             /\ next_file_handle = r.F.next_file_handle
             /\ session = Yielded

\* any node is renamed to any of RenameNames in any collection, up to
\* MaxRenames times
CommitRename(r) ==
    /\ None \notin DOMAIN r.w.nodes
    /\ None \notin DOMAIN r.w.rmeta
    /\ Mutations(r.w.nodes, DOMAIN r.w.nodes) <= MaxRenames
    /\ nodes' = r.w.nodes
    /\ rmeta' = r.w.rmeta
    /\ rcontent' = r.w.rcontent
    /\ rpayload' = r.w.rpayload
    /\ UNCHANGED <<status, file_handles, free_file_handles, next_file_handle,
                   session>>

RenameTo(old, new) ==
    /\ status = "mounted"
    /\ CommitRename(fs_rename(World(0), Fds, old, new,
                              [res |-> 0, out |-> Magic_pdf]))

NextRename ==
    \E old \in ExistingPaths(nodes),
       dir \in {e \in ExistingPaths(nodes) :
                  IsCollection(nodes[node(nodes, e).id])},
       fn \in RenameNames : RenameTo(old, dir \o <<fn>>)

SpecRename == InitRename /\ [][NextRename]_vars

\* what a .lines file and a .pagedata file may hold: one empty page or two,
\* or no header; no line, one or two, each "Blank" or one of two templates
LinesInputs ==
    {expected_header \o <<"1", "0">>, expected_header \o <<"2", "0", "0">>,
     <<"x">>}
TemplateNames == {"T", "U"}
PagedataInputs ==
    {<<>>} \cup {<<a>> : a \in TemplateNames \cup {"Blank"}}
    \cup {<<a, b>> : a, b \in TemplateNames \cup {"Blank"}}

\* a tablet that holds the notebook "n" and the PDF document "b" under the
\* root, and the templates
NotebookRemote(lines, names) ==
    [rmeta |-> ("N" :> JsonFile(LoadedMetadata(DocumentType, <<"n">>, RootId)))
            @@ ("D" :> JsonFile(LoadedMetadata(DocumentType, <<"b">>, RootId))),
     rcontent |-> ("N" :> JsonFile([fileType |-> <<>>]))
               @@ ("D" :> JsonFile([fileType |-> Str_pdf])),
     rpayload |-> (<<"N", Str_lines>> :> lines)
               @@ (<<"N", Str_pagedata>> :> names)
               @@ (<<"D", Str_pdf>> :> Magic_pdf)
               @@ [k \in {<<TemplateDir, t>> : t \in TemplateNames} |->
                      <<"p", "n", "g", k[2]>>]]

\* the state after the mount and open("/n.pdf"), open("/b.pdf")
InitRead ==
    /\ status = "mounted"
    /\ \E lines \in LinesInputs, names \in PagedataInputs :
          LET w == [DocumentRoot_init(NotebookRemote(lines, names),
                                      <<"N", "D">>, <<"N", "D">>)
                        EXCEPT !.writes = 0, !.failAt = 0]
              F == [file_handles |-> <<>>, free_file_handles |-> <<>>,
                    next_file_handle |-> 0]
              o == fs_open(w, F, <<<<"n", ".", "p", "d", "f">>>>, 0)
              r == fs_open(o.w, o.F, <<<<"b", ".", "p", "d", "f">>>>, 0)
          IN /\ nodes = r.w.nodes
             /\ rmeta = r.w.rmeta
             /\ rcontent = r.w.rcontent
             /\ rpayload = r.w.rpayload
             /\ file_handles = r.F.file_handles
             /\ free_file_handles = r.F.free_file_handles
             /\ next_file_handle = r.F.next_file_handle
             /\ session = Yielded

\* what a read leaves
CommitRead(r) ==
    /\ nodes' = r.w.nodes
    /\ rmeta' = r.w.rmeta
    /\ rcontent' = r.w.rcontent
    /\ rpayload' = r.w.rpayload
    /\ file_handles' = r.F.file_handles
    /\ free_file_handles' = r.F.free_file_handles
    /\ next_file_handle' = r.F.next_file_handle
    /\ UNCHANGED <<status, session>>

\* the requests a read makes of the transport when none fails: any one of
\* them may fail (0: none does)
ReadFaults(fd) == 0..fs_read(Reading(World(0), 0), Fds, 2, 0, fd).w.reads

\* read(path, size, offset, fd)
Read(fd, size, offset, fault) ==
    /\ status = "mounted"
    /\ CommitRead(fs_read(Reading(World(0), fault), Fds, size, offset, fd))

NextRead ==
    \E fd \in DOMAIN file_handles, size \in {2, 8}, offset \in {0, 1} :
        \E fault \in ReadFaults(fd) : Read(fd, size, offset, fault)

SpecRead == InitRead /\ [][NextRead]_vars

\* the strokes a page may hold: a fineliner stroke of no segment, a pen
\* stroke of two segments in grey, an eraser stroke of one segment
NoSegment == [pen |-> 4, colour |-> 0, nsegments |-> 0]
TwoSegments == [pen |-> 2, colour |-> 1, nsegments |-> 2]
Erased == [pen |-> 6, colour |-> 0, nsegments |-> 1]
StrokeInputs == {NoSegment, TwoSegments, Erased}

\* layers of no stroke, one, or two different ones; pages of no layer, one,
\* or one and a short one; notebooks of one page, or one and a short one
LayerInputs ==
    {<<>>} \cup {<<a>> : a \in StrokeInputs}
    \cup {ab \in StrokeInputs \X StrokeInputs : ab[1] # ab[2]}
PageInputs ==
    {<<>>} \cup {<<l>> : l \in LayerInputs}
    \cup {<<l, m>> : l \in LayerInputs, m \in {<<>>, <<TwoSegments>>}}
NotebookInputs ==
    {<<p>> : p \in PageInputs}
    \cup {<<p, q>> : p \in PageInputs,
                     q \in {<<>>, <<<<TwoSegments>>>>,
                            <<<<Erased>>, <<NoSegment, TwoSegments>>>>}}

\* the bytes of a .lines file that holds the given pages: the header and
\* the page count, then for each page its layer count, for each layer its
\* stroke count, for each stroke its pen, colour and segment count and then
\* its segment records
SegmentRecord == "s"
stroke_bytes(s) ==
    <<Digit[s.pen + 1], Digit[s.colour + 1], Digit[s.nsegments + 1]>>
    \o [i \in 1..s.nsegments |-> SegmentRecord]
layer_bytes(l) ==
    <<Digit[Len(l) + 1]>> \o Flatten([i \in 1..Len(l) |-> stroke_bytes(l[i])])
page_bytes(p) ==
    <<Digit[Len(p) + 1]>> \o Flatten([i \in 1..Len(p) |-> layer_bytes(p[i])])
lines_bytes(nb) ==
    expected_header \o <<Digit[Len(nb) + 1]>>
    \o Flatten([i \in 1..Len(nb) |-> page_bytes(nb[i])])

\* files that are no notebook: too short, another header, no page; a file
\* that ends inside a stroke; a stroke in a colour the device does not have
RejectedInputs ==
    {<<"x">>, expected_header, <<"x", "M", "1", "0">>,
     expected_header \o <<"0">>, expected_header \o <<"0", "0">>}
DamagedInputs ==
    {expected_header \o <<"1", "1", "1", "2", "1", "2", SegmentRecord>>,
     expected_header \o <<"1", "1", "1", "2", "3", "1", SegmentRecord>>}
DecodeInputs ==
    {lines_bytes(nb) : nb \in NotebookInputs} \cup RejectedInputs
    \cup DamagedInputs

\* the state after the mount and open("/n.pdf"), open("/b.pdf"), the
\* notebook with no template line or one
InitDecode ==
    /\ status = "mounted"
    /\ \E lines \in DecodeInputs, names \in {<<>>, <<"T">>} :
          LET w == [DocumentRoot_init(NotebookRemote(lines, names),
                                      <<"N", "D">>, <<"N", "D">>)
                        EXCEPT !.writes = 0, !.failAt = 0]
              F == [file_handles |-> <<>>, free_file_handles |-> <<>>,
                    next_file_handle |-> 0]
              o == fs_open(w, F, <<<<"n", ".", "p", "d", "f">>>>, 0)
              r == fs_open(o.w, o.F, <<<<"b", ".", "p", "d", "f">>>>, 0)
          IN /\ nodes = r.w.nodes
             /\ rmeta = r.w.rmeta
             /\ rcontent = r.w.rcontent
             /\ rpayload = r.w.rpayload
             /\ file_handles = r.F.file_handles
             /\ free_file_handles = r.F.free_file_handles
             /\ next_file_handle = r.F.next_file_handle
             /\ session = Yielded

SpecDecode == InitDecode /\ [][NextRead]_vars

\* what a call of paramiko may do: return, or raise
SshOutcomes == {"ok", "SSHException", "socket.error"}
Signals == {"SIGTERM", "SIGHUP"}

\* before connect() is called, with or without an address
InitSession ==
    /\ status = "boot"
    /\ nodes = <<>>
    /\ rmeta = <<>> /\ rcontent = <<>> /\ rpayload = <<>>
    /\ file_handles = <<>>
    /\ free_file_handles = <<>>
    /\ next_file_handle = 0
    /\ \E addr \in {None, "192.168.1.5"} :
          session = [pc |-> "connect", addr |-> addr, handlers |-> {},
                     calls |-> <<>>, exc |-> "none", delivered |-> None]

\* connect() goes on to the statement pc
Goto(pc) ==
    /\ session' = [session EXCEPT !.pc = pc]
    /\ UNCHANGED <<status, nodes, rmeta, rcontent, rpayload, file_handles,
                   free_file_handles, next_file_handle>>

\* the exception exc leaves the statement connect() is at and goes on to pc
RaiseTo(exc, pc) ==
    /\ session' = [session EXCEPT !.pc = pc, !.exc = exc]
    /\ UNCHANGED <<status, nodes, rmeta, rcontent, rpayload, file_handles,
                   free_file_handles, next_file_handle>>

\* ssh.exec_command(cmd) with the outcome out: connect() goes on to pc when
\* it returns, and the exception leaves connect() when it raises
ExecCommand(cmd, out, pc) ==
    /\ session' = [session EXCEPT
                      !.calls = Append(@, <<cmd, out>>),
                      !.pc = IF out = "ok" THEN pc ELSE "returned",
                      !.exc = IF out = "ok" THEN @ ELSE out]
    /\ UNCHANGED <<status, nodes, rmeta, rcontent, rpayload, file_handles,
                   free_file_handles, next_file_handle>>

\* ssh.connect(addr or default_addr, username="root")
SshConnect(out) ==
    /\ session.pc = "connect"
    /\ IF out = "ok" THEN Goto("exec_on_start")
       ELSE IF out = "SSHException" THEN Goto("getpass")
       ELSE RaiseTo(out, "returned")

\* getpass() and ssh.connect(..., password=password, look_for_keys=False)
SshConnectPassword(out) ==
    /\ session.pc = "getpass"
    /\ IF out = "ok" THEN Goto("exec_on_start") ELSE RaiseTo(out, "returned")

\* ssh.exec_command(on_start)
ExecOnStart(out) ==
    /\ session.pc = "exec_on_start"
    /\ ExecCommand(on_start, out,
                   IF session.addr = None THEN "exec_on_unplug"
                   ELSE "signal_SIGTERM")

\* ssh.exec_command("while ...; %s; kill $PPID" % on_finish)
ExecOnUnplug(out) ==
    /\ session.pc = "exec_on_unplug"
    /\ ExecCommand(on_unplug, out, "signal_SIGTERM")

\* signal(SIGTERM, raise_exception) and signal(SIGHUP, raise_exception)
InstallHandler(sig) ==
    /\ session.pc = IF sig = "SIGTERM" THEN "signal_SIGTERM"
                    ELSE "signal_SIGHUP"
    /\ session' = [session EXCEPT
                      !.handlers = @ \cup {sig},
                      !.pc = IF sig = "SIGTERM" THEN "signal_SIGHUP"
                             ELSE "open_sftp"]
    /\ UNCHANGED <<status, nodes, rmeta, rcontent, rpayload, file_handles,
                   free_file_handles, next_file_handle>>

\* with ssh.open_sftp() as sftp
OpenSftp(out) ==
    /\ session.pc = "open_sftp"
    /\ IF out = "ok" THEN Goto("chdir") ELSE RaiseTo(out, "finally")

\* sftp.chdir("/home/root/.local/share/remarkable/xochitl")
Chdir(out) ==
    /\ session.pc = "chdir"
    /\ IF out = "ok" THEN Goto("yield") ELSE RaiseTo(out, "finally")

\* yield Connection(ssh, sftp): the block of the caller ends, or raises
Yield(out) ==
    /\ session.pc = "yield"
    /\ IF out = "ok" THEN Goto("finally") ELSE RaiseTo(out, "finally")

\* finally: try:
Finally ==
    /\ session.pc = "finally"
    /\ Goto("exec_on_finish")

\* ssh.exec_command(on_finish) under except: pass, and the end of the
\* finally clause, where the exception that entered it goes on
ExecOnFinish(out) ==
    /\ session.pc = "exec_on_finish"
    /\ session' = [session EXCEPT !.calls = Append(@, <<on_finish, out>>),
                                  !.pc = "returned"]
    /\ UNCHANGED <<status, nodes, rmeta, rcontent, rpayload, file_handles,
                   free_file_handles, next_file_handle>>

\* a signal is delivered: the process is killed when raise_exception is not
\* installed for it; otherwise RuntimeError leaves the statement connect()
\* is at, to the finally clause from within the try statement, out of
\* connect() from the first line of the finally clause, and to except: pass
\* from within its try statement
Deliver(sig) ==
    /\ session.pc \notin {"returned", "killed"}
    /\ session' =
          IF sig \notin session.handlers
          THEN [session EXCEPT !.delivered = sig, !.pc = "killed"]
          ELSE IF session.pc = "finally"
          THEN [session EXCEPT !.delivered = sig, !.pc = "returned",
                               !.exc = "RuntimeError"]
          ELSE IF session.pc = "exec_on_finish"
          THEN [session EXCEPT !.delivered = sig, !.pc = "returned"]
          ELSE [session EXCEPT !.delivered = sig, !.pc = "finally",
                               !.exc = "RuntimeError"]
    /\ UNCHANGED <<status, nodes, rmeta, rcontent, rpayload, file_handles,
                   free_file_handles, next_file_handle>>

NextSession ==
    \/ \E out \in SshOutcomes : SshConnect(out)
    \/ \E out \in SshOutcomes : SshConnectPassword(out)
    \/ \E out \in SshOutcomes : ExecOnStart(out)
    \/ \E out \in SshOutcomes : ExecOnUnplug(out)
    \/ \E sig \in Signals : InstallHandler(sig)
    \/ \E out \in SshOutcomes : OpenSftp(out)
    \/ \E out \in SshOutcomes : Chdir(out)
    \/ \E out \in {"ok", "Exception"} : Yield(out)
    \/ Finally
    \/ \E out \in SshOutcomes : ExecOnFinish(out)
    \/ \E sig \in Signals : Deliver(sig)

SpecSession == InitSession /\ [][NextSession]_vars

-----------------------------------------------------------------------------
(* Mounting: DocumentRoot.__init__ on whatever the tablet holds *)

\* what the tablet may hold for one id: no record, a metadata file that
\* cannot be read or parsed, or a record of some type under some parent; a
\* document comes with each state its content and payload files may be in
ParentInputs == {RootId, "A", "B", "X"}
ContentInputs == {"missing", "garbage", "empty", "pdf"}

RecordInputs ==
    {[meta |-> m] : m \in {"absent", "unreadable", "garbage"}}
    \cup {[meta |-> "json", type |-> t, parent |-> p, deleted |-> FALSE] :
             t \in {CollectionType, "OtherType"}, p \in ParentInputs}
    \cup {[meta |-> "json", type |-> DocumentType, parent |-> p,
           deleted |-> FALSE, content |-> c, payload |-> TRUE] :
             p \in ParentInputs, c \in ContentInputs}
    \cup {[meta |-> "json", type |-> DocumentType, parent |-> p,
           deleted |-> FALSE, content |-> "pdf", payload |-> FALSE] :
             p \in ParentInputs}
    \cup {[meta |-> "json", type |-> DocumentType, parent |-> RootId,
           deleted |-> TRUE, content |-> "pdf", payload |-> TRUE]}

\* the files of one record; every record is named "a"
MetadataFile(id, r) ==
    IF r.meta = "absent" THEN <<>>
    ELSE IF r.meta # "json" THEN (id :> [st |-> r.meta])
    ELSE (id :> JsonFile([LoadedMetadata(r.type, <<"a">>, r.parent)
                            EXCEPT !.deleted = r.deleted]))

ContentFile(id, r) ==
    IF r.meta # "json" THEN <<>>
    ELSE IF r.type # DocumentType THEN (id :> JsonFile(<<>>))
    ELSE IF r.content = "missing" THEN <<>>
    ELSE IF r.content = "garbage" THEN (id :> [st |-> "garbage"])
    ELSE IF r.content = "empty" THEN (id :> JsonFile(<<>>))
    ELSE (id :> JsonFile([fileType |-> Str_pdf]))

PayloadFile(id, r) ==
    IF r.meta = "json" /\ r.type = DocumentType /\ r.payload
    THEN (<<id, Str_pdf>> :> Magic_pdf)
    ELSE <<>>

\* the tablet holding the records ra and rb under the ids "A" and "B"
Remote(ra, rb) ==
    [rmeta |-> MetadataFile("A", ra) @@ MetadataFile("B", rb),
     rcontent |-> ContentFile("A", ra) @@ ContentFile("B", rb),
     rpayload |-> PayloadFile("A", ra) @@ PayloadFile("B", rb)]

\* before DocumentRoot is constructed
InitLoad ==
    /\ status = "boot"
    /\ nodes = <<>>
    /\ \E ra, rb \in RecordInputs :
          /\ rmeta = Remote(ra, rb).rmeta
          /\ rcontent = Remote(ra, rb).rcontent
          /\ rpayload = Remote(ra, rb).rpayload
    /\ file_handles = <<>>
    /\ free_file_handles = <<>>
    /\ next_file_handle = 0
    /\ session = Yielded

\* what DocumentRoot.__init__ leaves: the tree, or the exception it let
\* through and the registry as it was then
Constructed(w) ==
    /\ status' = IF w.exc = "none" THEN "mounted" ELSE w.exc
    /\ nodes' = w.nodes
    /\ UNCHANGED <<rmeta, rcontent, rpayload, file_handles,
                   free_file_handles, next_file_handle, session>>

\* DocumentRoot.__init__
Load(listing, values) ==
    /\ status = "boot"
    /\ Constructed(DocumentRoot_init([rmeta |-> rmeta, rcontent |-> rcontent,
                                      rpayload |-> rpayload], listing, values))

NextLoad ==
    \E listing \in Orders(DOMAIN rmeta), values \in Orders(DOMAIN rmeta) :
       Load(listing, values)

SpecLoad == InitLoad /\ [][NextLoad]_vars

\* mounting a tablet whose records are all sound, to see the names they are
\* listed under: collections and documents named "a", "a/b" or "a-b", the
\* documents notebooks (fileType ""), PDFs or EPUBs, under the root or
\* under the record "A"
NameRecordInputs ==
    {[type |-> CollectionType, name |-> n, parent |-> p, fileType |-> <<>>] :
        n \in {<<"a">>, <<"a", "/", "b">>, <<"a", "-", "b">>},
        p \in {RootId, "A"}}
    \cup {[type |-> DocumentType, name |-> n, parent |-> p, fileType |-> t] :
             n \in {<<"a">>, <<"a", "/", "b">>, <<"a", "-", "b">>},
             p \in {RootId, "A"}, t \in {<<>>, Str_pdf, Str_epub}}

\* the files of the sound record r under the id
NamedRemote(id, r) ==
    [rmeta |-> (id :> JsonFile(LoadedMetadata(r.type, r.name, r.parent))),
     rcontent |-> (id :> JsonFile(IF r.type = DocumentType
                                  THEN [fileType |-> r.fileType] ELSE <<>>)),
     rpayload |-> IF r.type = DocumentType
                  THEN (<<id, file_type(r, Str_lines)>> :> Magic_pdf)
                  ELSE <<>>]

InitNames ==
    /\ status = "boot"
    /\ nodes = <<>>
    /\ \E ra, rb \in NameRecordInputs :
          /\ rmeta = NamedRemote("A", ra).rmeta @@ NamedRemote("B", rb).rmeta
          /\ rcontent = NamedRemote("A", ra).rcontent
                          @@ NamedRemote("B", rb).rcontent
          /\ rpayload = NamedRemote("A", ra).rpayload
                          @@ NamedRemote("B", rb).rpayload
    /\ file_handles = <<>>
    /\ free_file_handles = <<>>
    /\ next_file_handle = 0
    /\ session = Yielded

SpecNames == InitNames /\ [][NextLoad]_vars

\* mounting a tablet of three sound records under the root whose names
\* collide: PDF documents named "a" and collections named "a.pdf" or
\* "a.pdf (2)"
ListingRecordInputs ==
    {[type |-> DocumentType, name |-> <<"a">>, parent |-> RootId,
      fileType |-> Str_pdf]}
    \cup {[type |-> CollectionType, name |-> n, parent |-> RootId,
           fileType |-> <<>>] :
             n \in {<<"a", ".", "p", "d", "f">>,
                    Disambiguated(<<"a", ".", "p", "d", "f">>, 2)}}

InitListing ==
    /\ status = "boot"
    /\ nodes = <<>>
    /\ \E ra, rb, rc \in ListingRecordInputs :
          /\ rmeta = NamedRemote("A", ra).rmeta @@ NamedRemote("B", rb).rmeta
                       @@ NamedRemote("C", rc).rmeta
          /\ rcontent = NamedRemote("A", ra).rcontent
                          @@ NamedRemote("B", rb).rcontent
                          @@ NamedRemote("C", rc).rcontent
          /\ rpayload = NamedRemote("A", ra).rpayload
                          @@ NamedRemote("B", rb).rpayload
                          @@ NamedRemote("C", rc).rpayload
    /\ file_handles = <<>>
    /\ free_file_handles = <<>>
    /\ next_file_handle = 0
    /\ session = Yielded

SpecListing == InitListing /\ [][NextLoad]_vars

-----------------------------------------------------------------------------
(* Properties *)

Collections(ns) == {c \in DOMAIN ns : IsCollection(ns[c])}

\* the ids some collection's child map lists: what readdir can yield
Listed(ns) == UNION {ChildIds(ns, c) : c \in Collections(ns)}

\* following parent links from n reaches the root within the given steps
RECURSIVE ReachesRoot(_, _, _)
ReachesRoot(ns, n, steps) ==
    IF n = RootId THEN TRUE
    ELSE IF steps = 0 \/ n \notin DOMAIN ns THEN FALSE
    ELSE ReachesRoot(ns, ns[n].parent, steps - 1)

\* C1: after any sequence of filesystem operations on a loaded tree, parent
\* links from every node that some child map lists lead to the root: no
\* rename makes a collection its own child or a child of a descendant
C1_ParentsAcyclicRooted ==
    status = "mounted" =>
        \A n \in Listed(nodes) : ReachesRoot(nodes, n, Cardinality(DOMAIN nodes))

\* C2: whatever metadata records the tablet holds, after DocumentRoot is
\* constructed the ancestor chain of every node in the registry ends at the
\* root
C2_RegistryRooted ==
    status = "mounted" =>
        \A n \in DOMAIN nodes : ReachesRoot(nodes, n, Cardinality(DOMAIN nodes))

\* children and children_pathnames of one collection are mutual inverses
Inverses(c) ==
    /\ DOMAIN c.children_pathnames = {c.children[x] : x \in DOMAIN c.children}
    /\ \A x \in DOMAIN c.children : c.children_pathnames[c.children[x]] = x
    /\ \A k \in DOMAIN c.children_pathnames : c.children[c.children_pathnames[k]] = k

\* add_child of k to p keeps every entry p has and lists k under a new name
AddsBeside(p, k, w) ==
    /\ w.exc = "none"
    /\ \A x \in DOMAIN nodes[p].children :
          /\ x \in DOMAIN w.nodes[p].children
          /\ w.nodes[p].children[x] = nodes[p].children[x]
    /\ k \in DOMAIN w.nodes[p].children_pathnames
    /\ w.nodes[p].children_pathnames[k] \notin DOMAIN nodes[p].children
    /\ Inverses(w.nodes[p])

\* C3: in every reachable state the filename -> child map and the child ->
\* filename map of every collection are mutual inverses, and add_child of a
\* node the collection does not list keeps every entry and lists the node
\* under a name that was free, never rejecting it
C3_ChildMapsInverse ==
    \A p \in Collections(nodes) :
        /\ Inverses(nodes[p])
        /\ \A k \in DOMAIN nodes \ {RootId} :
              k \notin DOMAIN nodes[p].children_pathnames
                  => AddsBeside(p, k, add_child(World(0), p, k))

\* a collection lists a child under a disambiguated name
C3_Disambiguated ==
    \E p \in Collections(nodes) : \E x \in DOMAIN nodes[p].children :
        /\ x # ReplaceSlash(nodes[nodes[p].children[x]].file_name)
        /\ ReplaceSlash(nodes[nodes[p].children[x]].file_name)
              \in DOMAIN nodes[p].children

\* a document created and written but neither saved nor renamed yet, whose
\* buffer begins with "%PDF"
PdfPending(n) ==
    /\ nodes[n].cls = "NewDocument"
    /\ nodes[n].modified
    /\ nodes[n].metadata.version = 1
    /\ StartsWith(nodes[n].buf, Magic_pdf)

\* the remote store holds the upload of n with the payload B
PdfUploaded(w, n, B) ==
    /\ n \in DOMAIN w.rmeta
    /\ w.rmeta[n].st = "json"
    /\ w.rmeta[n].val.type = DocumentType
    /\ w.rmeta[n].val.parent = nodes[n].parent
    /\ n \in DOMAIN nodes[nodes[n].parent].children_pathnames
    /\ n \in DOMAIN w.rcontent
    /\ w.rcontent[n] = JsonFile([fileType |-> Str_pdf])
    /\ <<n, Str_pdf>> \in DOMAIN w.rpayload
    /\ w.rpayload[<<n, Str_pdf>>] = B

\* C4 as stated: after create(path) and writes that leave a buffer B
\* beginning with "%PDF", flush leaves the metadata record (DocumentType,
\* parent the containing collection), the content record with fileType pdf
\* and the payload <id>.pdf equal to B
C4_PdfUploaded_AnyPath ==
    \A fd \in DOMAIN file_handles :
        PdfPending(file_handles[fd]) =>
            PdfUploaded(fs_flush(World(0), Fds, fd, [res |-> 0, out |-> <<>>]).w,
                        file_handles[fd], nodes[file_handles[fd]].buf)

\* C4: the same for a path whose basename does not begin with "."
C4_PdfUploaded ==
    \A fd \in DOMAIN file_handles :
        /\ PdfPending(file_handles[fd])
        /\ ~StartsWith(nodes[file_handles[fd]].file_name, <<".">>)
        => PdfUploaded(fs_flush(World(0), Fds, fd, [res |-> 0, out |-> <<>>]).w,
                       file_handles[fd], nodes[file_handles[fd]].buf)

\* a PDF was created, written, flushed and released, and the tablet holds it
C4_Released ==
    \E n \in DOMAIN nodes :
        /\ nodes[n].cls = "NewDocument"
        /\ ~nodes[n].modified
        /\ nodes[n].metadata.version = 1
        /\ StartsWith(nodes[n].buf, Magic_pdf)
        /\ file_handles = <<>>
        /\ PdfUploaded(World(0), n, nodes[n].buf)


\* the buffer begins with one of the four magic prefixes
Supported(buf) ==
    \/ StartsWith(buf, Magic_pdf)
    \/ StartsWith(buf, Magic_djvu)
    \/ StartsWith(buf, Magic_ps)
    \/ StartsWith(buf, Magic_zip)

\* the remote store holds no file of the id n
NoRemoteFiles(w, n) ==
    /\ n \notin DOMAIN w.rmeta
    /\ n \notin DOMAIN w.rcontent
    /\ \A k \in DOMAIN w.rpayload : k[1] # n

\* what flush on fd leaves when the transport does not fail
Flushed(fd) == fs_flush(World(0), Fds, fd, [res |-> 1, out |-> <<>>])

\* C5: saving a new document with a non-dot filename and a non-empty buffer
\* that matches none of the four magic prefixes fails with EIO, takes the
\* node out of its parent's child map and leaves no remote file of its id
C5_UnsupportedRejected ==
    \A fd \in DOMAIN file_handles :
        /\ nodes[file_handles[fd]].cls = "NewDocument"
        /\ ~StartsWith(nodes[file_handles[fd]].file_name, <<".">>)
        /\ nodes[file_handles[fd]].buf # <<>>
        /\ ~Supported(nodes[file_handles[fd]].buf)
        => /\ Flushed(fd).ret = "EIO"
           /\ file_handles[fd] \notin Listed(Flushed(fd).w.nodes)
           /\ NoRemoteFiles(Flushed(fd).w, file_handles[fd])

\* C6: whenever the metadata record of a document uploaded in this session
\* exists on the tablet, so do its content record and the payload
\* <id>.<fileType> that record names, the transport failing where it may
C6_MetadataImpliesPayload ==
    \A n \in DOMAIN nodes :
        nodes[n].cls = "NewDocument" /\ n \in DOMAIN rmeta
        => /\ n \in DOMAIN rcontent
           /\ <<n, rcontent[n].val.fileType>> \in DOMAIN rpayload

\* unlink or rmdir of the path, as the node it names asks for
Deleted(path) ==
    IF IsCollection(nodes[node(nodes, path).id])
    THEN fs_rmdir(World(0), Fds, path, [res |-> 0, out |-> <<>>])
    ELSE fs_unlink(World(0), Fds, path, [res |-> 0, out |-> <<>>])

\* C7: unlink or rmdir of a node that has a metadata record on the tablet,
\* loaded or uploaded in this session, takes it out of every child map and
\* leaves its remote metadata record with deleted = true
C7_DeletePersisted ==
    \A path \in ExistingPaths(nodes) \ {<<>>} :
        /\ node(nodes, path).id \in DOMAIN rmeta
        /\ Deleted(path).ret = "OK"
        => /\ node(nodes, path).id \notin Listed(Deleted(path).w.nodes)
           /\ Deleted(path).w.rmeta[node(nodes, path).id].val.deleted

\* the record of id is a live collection, or a live document with its
\* content record and payload
SoundRecord(id) ==
    /\ rmeta[id].st = "json"
    /\ ~rmeta[id].val.deleted
    /\ \/ rmeta[id].val.type = CollectionType
       \/ /\ rmeta[id].val.type = DocumentType
          /\ id \in DOMAIN rcontent
          /\ rcontent[id].st = "json"
          /\ "fileType" \in DOMAIN rcontent[id].val
          /\ <<id, file_type(rcontent[id].val, Str_lines)>> \in DOMAIN rpayload

\* the record of id names the root or a live collection's record as parent
SoundParent(id) ==
    /\ rmeta[id].st = "json"
    /\ \/ rmeta[id].val.parent = RootId
       \/ /\ rmeta[id].val.parent \in DOMAIN rmeta \ {id}
          /\ rmeta[rmeta[id].val.parent].st = "json"
          /\ ~rmeta[rmeta[id].val.parent].val.deleted
          /\ rmeta[rmeta[id].val.parent].val.type = CollectionType

\* the record of id is one the loader has nothing to object to
WellFormed(id) == SoundRecord(id) /\ SoundParent(id)

\* the node of id is registered and its parent lists it
Linked(id) ==
    /\ id \in DOMAIN nodes
    /\ nodes[id].parent = rmeta[id].val.parent
    /\ nodes[id].parent \in DOMAIN nodes
    /\ id \in DOMAIN nodes[nodes[id].parent].children_pathnames

\* C8: whatever is wrong with one node (metadata unreadable or malformed,
\* content missing, malformed or without fileType, payload missing, parent
\* not a collection), DocumentRoot construction completes and registers
\* and links every well-formed node
C8_LoadTolerant ==
    status # "boot" =>
        /\ status = "mounted"
        /\ \A id \in DOMAIN rmeta : WellFormed(id) => Linked(id)

\* the record of id has a type the loader knows no class for
OpaqueRecord(id) ==
    /\ rmeta[id].st = "json"
    /\ ~rmeta[id].val.deleted
    /\ rmeta[id].val.type \notin {CollectionType, DocumentType}

\* C9: a record of unknown type gives a node that is in the registry and in
\* no collection's child map, and a node naming it as parent still loads:
\* construction completes when nothing else is wrong
C9_OpaqueUnlisted ==
    status # "boot" =>
        /\ \A id \in DOMAIN rmeta :
              OpaqueRecord(id) /\ status = "mounted"
                  => id \in DOMAIN nodes /\ id \notin Listed(nodes)
        /\ (\A id \in DOMAIN rmeta :
               /\ OpaqueRecord(id) \/ SoundRecord(id)
               /\ \/ SoundParent(id)
                  \/ /\ rmeta[id].val.parent \in DOMAIN rmeta \ {id}
                     /\ OpaqueRecord(rmeta[id].val.parent))
           => status = "mounted"


\* an assignment through a setter adds exactly 1 to the version, clears
\* synced and sets metadatamodified
Bumped(before, after) ==
    /\ after.version = before.version + 1
    /\ ~after.synced
    /\ after.metadatamodified

\* C10: every operation that changes a node's metadata record strictly
\* increases its version and leaves synced false and metadatamodified true;
\* each setter assignment (name, deleted, modified, pinned) adds exactly 1;
\* no step decreases a version
C10_VersionBumps ==
    [][\A n \in DOMAIN nodes : nodes[n].metadata # NoMetadata =>
          /\ nodes'[n].metadata.version >= nodes[n].metadata.version
          /\ nodes'[n].metadata # nodes[n].metadata
                => /\ nodes'[n].metadata.version > nodes[n].metadata.version
                   /\ ~nodes'[n].metadata.synced
                   /\ nodes'[n].metadata.metadatamodified
          /\ \A field \in {"deleted", "modified", "pinned"}, val \in BOOLEAN :
                Bumped(nodes[n].metadata, SetField(nodes[n].metadata, field, val))
          /\ \A val \in NameInputs :
                Bumped(nodes[n].metadata,
                       SetField(nodes[n].metadata, "visibleName", val))]_vars

\* a loaded node was renamed and then deleted: two assignments, version 3
C10_TwiceMutated ==
    \E n \in DOMAIN nodes :
        /\ nodes[n].cls # "NewDocument"
        /\ nodes[n].metadata # NoMetadata
        /\ nodes[n].metadata.version = 3
        /\ nodes[n].metadata.deleted
        /\ ~nodes[n].metadata.synced
        /\ nodes[n].metadata.metadatamodified
        /\ rmeta[n].val = nodes[n].metadata


-----------------------------------------------------------------------------
(* C11. save() is idempotent *)

\* the world a handler's next call starts in: what the last call left, with
\* its write count and its exception gone
Again(w) == [w EXCEPT !.writes = 0, !.exc = "none"]

\* the writes a save of the node may issue: its metadata, preceded by its
\* content and payload when it is a new document
WriteSequence(n) == IF nodes[n].cls = "NewDocument" THEN {0, 3} ELSE {0, 1}

\* the worlds a save may start in: the state as it is, and the state after
\* an assignment to a metadata field of the node
SaveStarts(n) ==
    {World(0)} \cup
    (IF nodes[n].metadata = NoMetadata THEN {}
     ELSE {rw_set(World(0), n, "pinned", v) : v \in BOOLEAN})

\* C11: in every reachable state, for every node of the registry (root,
\* collection, loaded document, new document), before or after a change of
\* one of its metadata fields, and for every converter outcome: a save issues
\* no write or one write sequence; a second save straight after it issues no
\* write and leaves the tablet as the first left it; and a save of a node
\* whose modified flag is false issues none.
C11_SaveIdempotent ==
    status = "mounted" =>
        \A n \in DOMAIN nodes, conv \in Convs :
            \A w \in SaveStarts(n) :
                /\ save(w, n, conv).writes \in WriteSequence(n)
                /\ save(Again(save(w, n, conv)), n, conv).writes = 0
                /\ save(Again(save(w, n, conv)), n, conv).rmeta
                      = save(w, n, conv).rmeta
                /\ save(Again(save(w, n, conv)), n, conv).rcontent
                      = save(w, n, conv).rcontent
                /\ save(Again(save(w, n, conv)), n, conv).rpayload
                      = save(w, n, conv).rpayload
                /\ ~w.nodes[n].modified => save(w, n, conv).writes = 0

\* a state where the first save of a new document, of a collection and of a
\* loaded document each write, from one of the starts above
C11_FirstSaveWrites ==
    /\ status = "mounted"
    /\ \A cls \in {"NewDocument", "Collection", "Document"} :
          \E n \in DOMAIN nodes :
             /\ nodes[n].cls = cls
             /\ \E w \in SaveStarts(n) :
                   save(w, n, [res |-> 0, out |-> Magic_pdf]).writes
                       = IF cls = "NewDocument" THEN 3 ELSE 1

-----------------------------------------------------------------------------
(* C12. rename across folders *)

\* the renames of the claim: old resolves to a loaded document, new names a
\* free basename in another collection than the one that lists it
AcrossFolders(old, new) ==
    /\ node(nodes, old).err = "OK"
    /\ nodes[node(nodes, old).id].cls = "Document"
    /\ parent(nodes, new).err = "OK"
    /\ IsCollection(nodes[parent(nodes, new).id])
    /\ parent(nodes, new).id # nodes[node(nodes, old).id].parent
    /\ parent(nodes, new).file \notin DOMAIN nodes[parent(nodes, new).id].children

\* what the claim says rename(old, new) leaves, D in P moved to F
MovedAcross(r, D, P, F) ==
    /\ r.ret = "OK"
    /\ D \notin ChildIds(r.w.nodes, P)
    /\ D \in ChildIds(r.w.nodes, F)
    /\ r.w.nodes[D].parent = F
    /\ r.w.rmeta[D].val.parent = F
    /\ r.w.rmeta[D].val.version > rmeta[D].val.version
    /\ r.w.rmeta[D].val.version > nodes[D].metadata.version

\* C12: in every reachable state, for a loaded document D listed in a
\* collection P and a basename free in another collection F, rename of D's
\* path to that basename in F succeeds, unlists D from P, lists D in F, sets
\* D's parent to F, and leaves D's remote metadata record with parent = F.id
\* and a version greater than before.
C12_RenameAcrossFolders ==
    status = "mounted" =>
        \A old \in ExistingPaths(nodes), new \in PathInputs(nodes, NameInputs) :
            AcrossFolders(old, new) =>
                \A conv \in Convs :
                    MovedAcross(fs_rename(World(0), Fds, old, new, conv),
                                node(nodes, old).id,
                                nodes[node(nodes, old).id].parent,
                                parent(nodes, new).id)

\* the loaded document has been moved from the root into the folder
C12_MovedIntoFolder ==
    /\ status = "mounted"
    /\ "D" \in DOMAIN nodes /\ "F" \in DOMAIN nodes
    /\ nodes["D"].cls = "Document"
    /\ nodes["D"].parent = "F"
    /\ "D" \in ChildIds(nodes, "F")
    /\ "D" \notin ChildIds(nodes, RootId)
    /\ ~nodes["D"].metadata.deleted
    /\ rmeta["D"].val.parent = "F"
    /\ rmeta["D"].val.version = 2

-----------------------------------------------------------------------------
(* C13. rename onto an existing collection *)

\* the name under which the parent of node n lists it
ListedAs(ns, n) == ns[ns[n].parent].children_pathnames[n]

\* the renames of the claim: old resolves to a node below the root, new to
\* a collection other than that node, in which the node's name is free
IntoCollection(old, new) ==
    /\ old # <<>>
    /\ node(nodes, old).err = "OK"
    /\ new # <<>>
    /\ node(nodes, new).err = "OK"
    /\ IsCollection(nodes[node(nodes, new).id])
    /\ node(nodes, new).id # node(nodes, old).id
    /\ ListedAs(nodes, node(nodes, old).id)
          \notin DOMAIN nodes[node(nodes, new).id].children

\* C13: in every reachable state, a rename whose target resolves to an
\* existing collection C, and that succeeds, leaves the source node listed
\* in C under the filename (extension included) that its old parent listed
\* it under, when C held no such name.
C13_KeepsSourceName ==
    status = "mounted" =>
        \A old \in ExistingPaths(nodes), new \in ExistingPaths(nodes) :
            IntoCollection(old, new) =>
                \A conv \in Convs :
                    LET r == fs_rename(World(0), Fds, old, new, conv)
                        n == node(nodes, old).id
                        C == node(nodes, new).id
                    IN r.ret = "OK" =>
                          /\ ListedAs(nodes, n) \in DOMAIN r.w.nodes[C].children
                          /\ r.w.nodes[C].children[ListedAs(nodes, n)] = n

-----------------------------------------------------------------------------
(* C14. rename onto an existing file *)

\* a handler result that changed nothing and wrote nothing
Untouched(r) ==
    /\ r.w.nodes = nodes
    /\ r.w.rmeta = rmeta
    /\ r.w.rcontent = rcontent
    /\ r.w.rpayload = rpayload
    /\ r.w.writes = 0
    /\ r.F = Fds

\* the path resolves to a node that is no collection
ResolvesToFile(path) ==
    /\ node(nodes, path).err = "OK"
    /\ ~IsCollection(nodes[node(nodes, path).id])

\* C14: in every reachable state, a rename of any resolving path onto a
\* path that resolves to an existing non-collection node returns EEXIST,
\* and leaves every node (parent, filename, metadata), the handle table and
\* the tablet as they were, with no write issued.
C14_RenameOntoFile ==
    status = "mounted" =>
        \A old \in ExistingPaths(nodes), new \in ExistingPaths(nodes) :
            ResolvesToFile(new) =>
                \A conv \in Convs :
                    /\ fs_rename(World(0), Fds, old, new, conv).ret = "EEXIST"
                    /\ Untouched(fs_rename(World(0), Fds, old, new, conv))

\* two documents and a folder are listed, so that a document, a new
\* document and a collection can each be renamed onto another file
C14_TwoFiles ==
    /\ status = "mounted"
    /\ \E old \in ExistingPaths(nodes), new \in ExistingPaths(nodes),
          dir \in ExistingPaths(nodes) :
          /\ old # new
          /\ ResolvesToFile(old) /\ ResolvesToFile(new)
          /\ nodes[node(nodes, old).id].cls = "NewDocument"
          /\ nodes[node(nodes, new).id].cls = "Document"
          /\ dir # <<>> /\ ~ResolvesToFile(dir)
          /\ fs_rename(World(0), Fds, old, new,
                       [res |-> 0, out |-> Magic_pdf]).ret = "EEXIST"
          /\ fs_rename(World(0), Fds, dir, old,
                       [res |-> 0, out |-> Magic_pdf]).ret = "EEXIST"

-----------------------------------------------------------------------------
(* C15. a loaded document is not opened for writing *)

\* open flags with O_WRONLY or O_RDWR set
WriteFlags == {O_WRONLY, O_RDWR, O_WRONLY + O_RDWR}

\* the handler left the payloads and content records on the tablet, and
\* the node's size and content, as they were
PayloadKept(r, n) ==
    /\ r.w.rpayload = rpayload
    /\ r.w.rcontent = rcontent
    /\ r.w.nodes[n].content = nodes[n].content
    /\ r.w.nodes[n].buf = nodes[n].buf

\* C15: in every reachable state, open with O_WRONLY or O_RDWR on a path
\* that resolves to a loaded Document returns EPERM and leaves the handle
\* table and everything else unchanged; and through a descriptor bound to a
\* loaded Document (open gave it, read-only) no write, truncate or flush
\* changes a payload or content record on the tablet.
C15_DocumentNotWritable ==
    status = "mounted" =>
        /\ \A path \in ExistingPaths(nodes), flags \in WriteFlags :
              nodes[node(nodes, path).id].cls = "Document" =>
                  /\ fs_open(World(0), Fds, path, flags).ret = "EPERM"
                  /\ Untouched(fs_open(World(0), Fds, path, flags))
        /\ \A fd \in DOMAIN file_handles :
              nodes[file_handles[fd]].cls = "Document" =>
                  /\ \A data \in DataInputs :
                        /\ fs_write(World(0), Fds, data, 0, fd).ret # "OK"
                        /\ PayloadKept(fs_write(World(0), Fds, data, 0, fd),
                                       file_handles[fd])
                  /\ \A length \in LengthInputs :
                        /\ fs_truncate(World(0), Fds, <<>>, length, <<fd>>).ret
                              # "OK"
                        /\ PayloadKept(fs_truncate(World(0), Fds, <<>>, length,
                                                   <<fd>>),
                                       file_handles[fd])
                  /\ \A conv \in Convs :
                        PayloadKept(fs_flush(World(0), Fds, fd, conv),
                                    file_handles[fd])

\* open gave a descriptor for the loaded document, which is still listed
C15_DocumentOpen ==
    /\ status = "mounted"
    /\ \E fd \in DOMAIN file_handles :
          /\ nodes[file_handles[fd]].cls = "Document"
          /\ file_handles[fd] \in Listed(nodes)
          /\ <<file_handles[fd], Str_pdf>> \in DOMAIN rpayload

-----------------------------------------------------------------------------
(* C16. create and mkdir *)

\* an id new_id() may return: one that names no node and no record
FreshId ==
    IF new_id # None THEN new_id
    ELSE CHOOSE id \in {"u1", "u2"} : id \notin DOMAIN nodes \cup DOMAIN rmeta

\* the remote files are as they were and nothing was written
RemoteUntouched(r) ==
    /\ r.w.rmeta = rmeta
    /\ r.w.rcontent = rcontent
    /\ r.w.rpayload = rpayload
    /\ r.w.writes = 0

\* what create leaves for a free basename file in the collection p
Created(r, p, file) ==
    /\ r.ret = "OK"
    /\ r.F.fd \notin DOMAIN file_handles
    /\ r.F.file_handles = (r.F.fd :> FreshId) @@ file_handles
    /\ DOMAIN r.w.nodes = DOMAIN nodes \cup {FreshId}
    /\ r.w.nodes[FreshId].cls = "NewDocument"
    /\ r.w.nodes[FreshId].buf = <<>>
    /\ r.w.nodes[FreshId].parent = p
    /\ r.w.nodes[p].children = (file :> FreshId) @@ nodes[p].children
    /\ RemoteUntouched(r)

\* what mkdir leaves for a free basename file in the collection p
MadeDir(r, p, file) ==
    /\ r.ret = "OK"
    /\ r.F = Fds
    /\ DOMAIN r.w.nodes = DOMAIN nodes \cup {FreshId}
    /\ r.w.nodes[FreshId].cls = "Collection"
    /\ r.w.nodes[FreshId].children = <<>>
    /\ r.w.nodes[FreshId].parent = p
    /\ r.w.nodes[p].children = (file :> FreshId) @@ nodes[p].children

\* C16: in every reachable state, for every path whose parent resolves to
\* a collection: if the basename is a key of that collection, create and
\* mkdir return EEXIST and leave the registry, the handle table and the
\* tablet unchanged; otherwise create returns a descriptor that was not
\* open, bound to a new NewDocument with an empty buffer that the parent
\* lists under the basename, with nothing written to the tablet, and mkdir
\* leaves a new Collection without children listed under the basename.
C16_CreateMkdir ==
    status = "mounted" =>
        \A path \in PathInputs(nodes, NameInputs) :
            (/\ parent(nodes, path).err = "OK"
             /\ IsCollection(nodes[parent(nodes, path).id])) =>
                IF parent(nodes, path).file
                       \in DOMAIN nodes[parent(nodes, path).id].children
                THEN /\ fs_create(World(0), Fds, path, FreshId).ret = "EEXIST"
                     /\ Untouched(fs_create(World(0), Fds, path, FreshId))
                     /\ fs_mkdir(World(0), Fds, path, FreshId).ret = "EEXIST"
                     /\ Untouched(fs_mkdir(World(0), Fds, path, FreshId))
                ELSE /\ Created(fs_create(World(0), Fds, path, FreshId),
                                parent(nodes, path).id, parent(nodes, path).file)
                     /\ MadeDir(fs_mkdir(World(0), Fds, path, FreshId),
                                parent(nodes, path).id, parent(nodes, path).file)

\* create has returned a descriptor for a new document the folder lists,
\* nothing of which is on the tablet, and a second create of its path is
\* refused
C16_CreatedInFolder ==
    /\ status = "mounted"
    /\ \E fd \in DOMAIN file_handles, name \in NameInputs :
          /\ nodes[file_handles[fd]].cls = "NewDocument"
          /\ "F" \in DOMAIN nodes
          /\ nodes[file_handles[fd]].parent = "F"
          /\ name \in DOMAIN nodes["F"].children
          /\ nodes["F"].children[name] = file_handles[fd]
          /\ file_handles[fd] \notin DOMAIN rmeta
          /\ fs_create(World(0), Fds, <<<<"f">>, name>>, FreshId).ret = "EEXIST"

-----------------------------------------------------------------------------
(* C17. write and truncate on what is no new document *)

\* C17: in every reachable state, write through a descriptor bound to a
\* node that is no NewDocument (a loaded Document or a Collection), and
\* truncate through such a descriptor or on a path that resolves to such a
\* node, return EPERM and leave the registry, the handle table and the
\* tablet unchanged.
C17_OnlyNewDocumentsWritable ==
    status = "mounted" =>
        /\ \A fd \in DOMAIN file_handles :
              nodes[file_handles[fd]].cls # "NewDocument" =>
                  /\ \A data \in DataInputs :
                        /\ fs_write(World(0), Fds, data, 0, fd).ret = "EPERM"
                        /\ Untouched(fs_write(World(0), Fds, data, 0, fd))
                  /\ \A length \in LengthInputs :
                        /\ fs_truncate(World(0), Fds, <<>>, length, <<fd>>).ret
                              = "EPERM"
                        /\ Untouched(fs_truncate(World(0), Fds, <<>>, length,
                                                 <<fd>>))
        /\ \A path \in ExistingPaths(nodes), length \in LengthInputs :
              nodes[node(nodes, path).id].cls # "NewDocument" =>
                  /\ fs_truncate(World(0), Fds, path, length, <<>>).ret = "EPERM"
                  /\ Untouched(fs_truncate(World(0), Fds, path, length, <<>>))

-----------------------------------------------------------------------------
(* C18. temporary files and empty files are not uploaded *)

\* a new document that save passes over: a dot-file, a deleted one, or one
\* with nothing in its buffer
Skipped(n) ==
    /\ nodes[n].cls = "NewDocument"
    /\ \/ StartsWith(nodes[n].file_name, <<".">>)
       \/ nodes[n].metadata.deleted
       \/ nodes[n].buf = <<>>

\* C18: in every reachable state, flush through a descriptor bound to a
\* NewDocument whose filename begins with ".", or that is flagged deleted,
\* or whose buffer is empty, returns success, issues no write and leaves
\* the tablet and the registry unchanged, whatever the buffer holds and
\* whatever the converter would do.
C18_FlushSkips ==
    status = "mounted" =>
        \A fd \in DOMAIN file_handles, conv \in Convs :
            Skipped(file_handles[fd]) =>
                /\ fs_flush(World(0), Fds, fd, conv).ret = "OK"
                /\ Untouched(fs_flush(World(0), Fds, fd, conv))

\* a descriptor is bound to a dot-file that holds a PDF, modified and
\* listed, of which the tablet has nothing
C18_DotFileHoldsPdf ==
    /\ status = "mounted"
    /\ \E fd \in DOMAIN file_handles :
          /\ Skipped(file_handles[fd])
          /\ StartsWith(nodes[file_handles[fd]].file_name, <<".">>)
          /\ StartsWith(nodes[file_handles[fd]].buf, Magic_pdf)
          /\ nodes[file_handles[fd]].modified
          /\ ~nodes[file_handles[fd]].metadata.deleted
          /\ file_handles[fd] \in Listed(nodes)
          /\ file_handles[fd] \notin DOMAIN rmeta

-----------------------------------------------------------------------------
(* C19. the bookmark attribute *)

\* the values setxattr takes for true and for false, and two it refuses
PinValues == {"yes", "true", "1", "no", "false", "0"}
OtherValues == {"maybe", ""}

\* what setxattr(path, "user.bookmarked", value) leaves for the node n, and
\* what the next getxattr returns
Bookmarked(r, path, n, value) ==
    /\ r.ret = "OK"
    /\ r.w.nodes[n].metadata # NoMetadata
    /\ r.w.nodes[n].metadata.pinned = (value \in {"yes", "true", "1"})
    /\ n \in DOMAIN r.w.rmeta
    /\ r.w.rmeta[n].val.pinned = (value \in {"yes", "true", "1"})
    /\ fs_getxattr(Again(r.w), r.F, path, "user.bookmarked").ret
          = IF value \in {"yes", "true", "1"} THEN "yes" ELSE "no"

\* C19: in every reachable state, for every path that resolves:
\* setxattr(path, "user.bookmarked", v) with v among yes, true, 1 (among no,
\* false, 0) succeeds, sets pinned to true (false) on the node and in its
\* remote metadata record, and the next getxattr of the attribute returns
\* "yes" ("no"); with any other value it returns ENOTSUP and changes
\* nothing.
C19_BookmarkRoundTrip ==
    status = "mounted" =>
        \A path \in ExistingPaths(nodes), conv \in Convs :
            /\ \A value \in PinValues :
                  Bookmarked(fs_setxattr(World(0), Fds, path, "user.bookmarked",
                                         value, conv),
                             path, node(nodes, path).id, value)
            /\ \A value \in OtherValues :
                  /\ fs_setxattr(World(0), Fds, path, "user.bookmarked",
                                 value, conv).ret = "ENOTSUP"
                  /\ Untouched(fs_setxattr(World(0), Fds, path,
                                           "user.bookmarked", value, conv))

-----------------------------------------------------------------------------
(* C20. rmdir *)

\* what rmdir leaves of the empty collection c below the root
Removed(r, c) ==
    /\ r.ret = "OK"
    /\ c \notin Listed(r.w.nodes)
    /\ r.w.nodes[c].metadata.deleted
    /\ r.w.rmeta[c].val.deleted
    /\ r.w.nodes[c].children = <<>>

\* the collections that have been deleted
DeletedCollections ==
    {c \in DOMAIN nodes : /\ nodes[c].cls = "Collection"
                          /\ nodes[c].metadata.deleted}

\* C20: in every reachable state, rmdir of a path that resolves to a
\* non-collection returns ENOTDIR and rmdir of a collection with a child
\* returns ENOTEMPTY, both changing nothing in the registry, the handle
\* table and the tablet; rmdir of a childless collection below the root
\* succeeds and leaves it unlisted and flagged deleted, in memory and on the
\* tablet; and no deleted collection lists any node.
C20_RmdirOnlyEmpty ==
    status = "mounted" =>
        /\ \A path \in ExistingPaths(nodes), conv \in Convs :
              IF ~IsCollection(nodes[node(nodes, path).id])
              THEN /\ fs_rmdir(World(0), Fds, path, conv).ret = "ENOTDIR"
                   /\ Untouched(fs_rmdir(World(0), Fds, path, conv))
              ELSE IF DOMAIN nodes[node(nodes, path).id].children # {}
              THEN /\ fs_rmdir(World(0), Fds, path, conv).ret = "ENOTEMPTY"
                   /\ Untouched(fs_rmdir(World(0), Fds, path, conv))
              ELSE path # <<>> =>
                      Removed(fs_rmdir(World(0), Fds, path, conv),
                              node(nodes, path).id)
        /\ \A c \in DeletedCollections :
              /\ DOMAIN nodes[c].children = {}
              /\ DOMAIN nodes[c].children_pathnames = {}

\* a collection has been removed while another, below the root, lists a
\* child and so cannot be
C20_RemovedBesideNonEmpty ==
    /\ status = "mounted"
    /\ \E c \in DeletedCollections :
          /\ c \notin Listed(nodes)
          /\ rmeta[c].val.deleted
    /\ \E path \in ExistingPaths(nodes) :
          /\ path # <<>>
          /\ fs_rmdir(World(0), Fds, path, [res |-> 0, out |-> Magic_pdf]).ret
                = "ENOTEMPTY"

-----------------------------------------------------------------------------
(* C21. format detection *)

\* the claim's table: magic prefix, file type, converter (None: the bytes
\* pass through)
MagicTable ==
    {<<Magic_pdf, Str_pdf, None>>,
     <<Magic_djvu, Str_pdf, "ddjvu --format=pdf">>,
     <<Magic_ps, Str_pdf, "ps2pdf">>,
     <<Magic_zip, Str_epub, None>>}

\* what the claim says convert_document gives for data that begins with
\* the magic of the table's row t
Detected(t, data, conv) ==
    /\ detect(data).convert = t[3]
    /\ convert_document(data, conv) =
          IF t[3] = None
          THEN [exc |-> "none", filetype |-> t[2], data |-> data]
          ELSE IF conv.res = 0
          THEN [exc |-> "none", filetype |-> t[2], data |-> conv.out]
          ELSE [exc |-> "IOError"]

\* the buffers at hand: the inputs, and those of the new documents
Buffers ==
    ConvertData \cup {nodes[n].buf : n \in {m \in DOMAIN nodes :
                                              nodes[m].cls = "NewDocument"}}

\* what a flush that runs convert_document leaves of its result c
FlushConverts(r, n, c) ==
    IF c.exc = "none"
    THEN /\ r.ret = "OK"
         /\ r.w.rcontent[n].val = [fileType |-> c.filetype]
         /\ r.w.rpayload[<<n, c.filetype>>] = c.data
    ELSE /\ r.ret = "EIO"
         /\ \A k \in DOMAIN r.w.rpayload : k[1] # n
         /\ n \notin DOMAIN r.w.rcontent

\* C21: for every buffer and every outcome of the converter, at most one
\* row of the table matches the buffer; convert_document gives pdf and the
\* same bytes for "%PDF", epub and the same bytes for "PK", pdf and the
\* output of ddjvu for "AT&TFORM" and of ps2pdf for "%!PS-Adobe" when the
\* converter exits with 0, and exactly an IOError, with no file type and no
\* data, when it exits otherwise or when no row matches; and a flush that
\* converts a buffer writes that file type and those bytes, or fails.
C21_FormatDetection ==
    /\ \A data \in Buffers, conv \in Convs :
          LET hits == {t \in MagicTable : StartsWith(data, t[1])}
          IN /\ Cardinality(hits) <= 1
             /\ hits = {} => convert_document(data, conv) = [exc |-> "IOError"]
             /\ \A t \in hits : Detected(t, data, conv)
    /\ \A fd \in DOMAIN file_handles, conv \in Convs :
          (/\ ~Skipped(file_handles[fd])
           /\ nodes[file_handles[fd]].modified) =>
              FlushConverts(fs_flush(World(0), Fds, fd, conv), file_handles[fd],
                            convert_document(nodes[file_handles[fd]].buf, conv))

\* a DjVu upload is on the tablet as the PDF the converter gave
C21_DjvuConverted ==
    \E n \in DOMAIN nodes :
        /\ nodes[n].cls = "NewDocument"
        /\ StartsWith(nodes[n].buf, Magic_djvu)
        /\ <<n, Str_pdf>> \in DOMAIN rpayload
        /\ rpayload[<<n, Str_pdf>>] = Magic_pdf
        /\ rcontent[n].val = [fileType |-> Str_pdf]

-----------------------------------------------------------------------------
(* C22. the names nodes are listed under at load *)

\* the name with "-" for every "/"
Dashed(name) == [i \in DOMAIN name |-> IF name[i] = "/" THEN "-" ELSE name[i]]

\* the name the claim gives a loaded node, from its records on the tablet
PolicyName(n) ==
    Dashed(
        IF rmeta[n].val.type = CollectionType THEN rmeta[n].val.visibleName
        ELSE rmeta[n].val.visibleName \o <<".">> \o
             (IF rcontent[n].val.fileType # <<>> THEN rcontent[n].val.fileType
              ELSE Str_pdf))

\* the key is the name, or the name disambiguated because it was taken
NameOrDisambiguated(children, key, name) ==
    \/ key = name
    \/ /\ name \in DOMAIN children
       /\ \E k \in 2..(Cardinality(DOMAIN children) + 1) :
             key = Disambiguated(name, k)

\* C22: once the tablet is mounted, every loaded Collection and Document
\* whose parent is a registered collection is listed by it, a Collection
\* under its visibleName and a Document under visibleName + "." + ext, ext
\* being content.fileType or "pdf" when that is empty, "/" replaced by "-",
\* and under that name followed by " (n)" only when the name was taken.
C22_LoadNames ==
    status = "mounted" =>
        \A n \in DOMAIN nodes :
            (/\ nodes[n].cls \in {"Collection", "Document"}
             /\ rmeta[n].val.parent \in Collections(nodes)) =>
                LET p == rmeta[n].val.parent
                IN /\ n \in DOMAIN nodes[p].children_pathnames
                   /\ nodes[p].children[nodes[p].children_pathnames[n]] = n
                   /\ NameOrDisambiguated(nodes[p].children,
                                          nodes[p].children_pathnames[n],
                                          PolicyName(n))

\* a notebook named "a/b" is listed as "a-b.pdf (2)" beside another
\* document that took "a-b.pdf"
C22_NotebookListed ==
    /\ status = "mounted"
    /\ \E n \in DOMAIN nodes :
          /\ nodes[n].cls = "Document"
          /\ rcontent[n].val.fileType = <<>>
          /\ rmeta[n].val.visibleName = <<"a", "/", "b">>
          /\ n \in DOMAIN nodes[RootId].children_pathnames
          /\ nodes[RootId].children_pathnames[n]
                = <<"a", "-", "b", ".", "p", "d", "f", " ", "(", "2", ")">>

-----------------------------------------------------------------------------
(* C23. the handle table *)

\* the descriptors in the free pool
FreeSet == {free_file_handles[i] : i \in DOMAIN free_file_handles}

\* the table is dense: open and free descriptors are apart, no descriptor
\* is twice in the pool, and together they are 0 .. next_file_handle - 1
Dense ==
    /\ DOMAIN file_handles \cap FreeSet = {}
    /\ Cardinality(FreeSet) = Len(free_file_handles)
    /\ DOMAIN file_handles \cup FreeSet = 0..(next_file_handle - 1)

\* new() gives a descriptor that is not open and keeps the open ones
NewIsFresh ==
    \A n \in DOMAIN nodes :
        /\ fds_new(Fds, n).fd \notin DOMAIN file_handles
        /\ \A fd \in DOMAIN file_handles :
              fds_new(Fds, n).file_handles[fd] = file_handles[fd]

\* close() of a descriptor that is not open changes nothing
CloseOfClosed ==
    \A fd \in 0..next_file_handle :
        fd \notin DOMAIN file_handles =>
            /\ fs_release(World(0), Fds, fd).ret = "KeyError"
            /\ fs_release(World(0), Fds, fd).F = Fds

\* C23: after every sequence of new() and close() calls the open
\* descriptors and the free pool are disjoint, the pool holds no descriptor
\* twice, their union is 0 .. next_file_handle - 1, new() returns a
\* descriptor that is not open, and a close() of a descriptor that is not
\* open changes nothing; and next_file_handle never decreases.
C23_HandleTableDense ==
    /\ [](Dense /\ NewIsFresh /\ CloseOfClosed)
    /\ [][next_file_handle' >= next_file_handle]_vars

\* three descriptors were allocated; one is open beside two in the pool,
\* released in another order than they were allocated
C23_ReusedPool ==
    /\ next_file_handle = 3
    /\ 1 \in DOMAIN file_handles
    /\ Cardinality(DOMAIN file_handles) = 1
    /\ Len(free_file_handles) = 2
    /\ free_file_handles[1] > free_file_handles[2]

-----------------------------------------------------------------------------
(* C24. a successful flush leaves the current buffer on the tablet *)

\* a new document that is no temporary file and holds data of a format
\* that is uploaded as it is (PDF or EPUB)
Passthrough(n) ==
    /\ nodes[n].cls = "NewDocument"
    /\ ~Skipped(n)
    /\ detect(nodes[n].buf).ok
    /\ detect(nodes[n].buf).convert = None

\* C24: in every reachable state, when flush through a descriptor bound to
\* a NewDocument with a non-dot filename, not deleted, whose buffer is not
\* empty and begins with "%PDF" or "PK", returns success, a payload file of
\* the node's id on the tablet is byte-equal to the buffer, whether or not
\* the node was flushed before.
C24_FlushedPayloadCurrent ==
    status = "mounted" =>
        \A fd \in DOMAIN file_handles, conv \in Convs :
            (/\ Passthrough(file_handles[fd])
             /\ fs_flush(World(0), Fds, fd, conv).ret = "OK") =>
                \E k \in DOMAIN fs_flush(World(0), Fds, fd, conv).w.rpayload :
                    /\ k[1] = file_handles[fd]
                    /\ fs_flush(World(0), Fds, fd, conv).w.rpayload[k]
                          = nodes[file_handles[fd]].buf

-----------------------------------------------------------------------------
(* C25. disambiguation *)

\* the key is what the claim gives the name f among the keys K: f when it
\* is free, and otherwise "f (n)" for the least n >= 2 that is free
LeastFree(K, f, key) ==
    /\ key \notin K
    /\ IF f \notin K THEN key = f
       ELSE \E n \in 2..(Cardinality(K) + 2) :
               /\ key = Disambiguated(f, n)
               /\ \A m \in 2..(n - 1) : Disambiguated(f, m) \in K

\* the keys add_child of k adds to those of p
AddedKeys(p, k) ==
    DOMAIN add_child(World(0), p, k).nodes[p].children
        \ DOMAIN nodes[p].children

\* C25: once the tablet is mounted, add_child of any node with sanitised
\* filename f to any collection with key set K adds exactly one key, which
\* is f when f is not in K and otherwise "f (n)" for the least n >= 2 with
\* "f (n)" not in K; two nodes with the same f get the same key; and every
\* key the mount itself listed is that name for the node's f among the
\* other keys.
C25_LeastFreeName ==
    status = "mounted" =>
        /\ \A p \in Collections(nodes), k \in DOMAIN nodes \ {RootId} :
              /\ Cardinality(AddedKeys(p, k)) = 1
              /\ \A key \in AddedKeys(p, k) :
                    LeastFree(DOMAIN nodes[p].children,
                              Dashed(nodes[k].file_name), key)
              /\ \A j \in DOMAIN nodes \ {RootId} :
                    nodes[j].file_name = nodes[k].file_name
                        => AddedKeys(p, j) = AddedKeys(p, k)
        /\ \A p \in Collections(nodes) :
              \A key \in DOMAIN nodes[p].children :
                  LeastFree(DOMAIN nodes[p].children \ {key},
                            Dashed(nodes[nodes[p].children[key]].file_name), key)

\* two documents named "a" beside a collection named "a.pdf (2)": the root
\* lists "a.pdf", the collection, and the second document as "a.pdf (3)"
C25_ThirdName ==
    /\ status = "mounted"
    /\ DOMAIN nodes[RootId].children =
          {<<"a", ".", "p", "d", "f">>,
           Disambiguated(<<"a", ".", "p", "d", "f">>, 2),
           Disambiguated(<<"a", ".", "p", "d", "f">>, 3)}
    /\ nodes[nodes[RootId].children[
              Disambiguated(<<"a", ".", "p", "d", "f">>, 2)]].cls = "Collection"
    /\ nodes[nodes[RootId].children[
              Disambiguated(<<"a", ".", "p", "d", "f">>, 3)]].cls = "Document"

-----------------------------------------------------------------------------
(* C26. the names a rename gives *)

\* fn is some name that has a character other than "." followed by ext
HasExtension(fn, ext) ==
    /\ Len(fn) > Len(ext)
    /\ SubSeq(fn, Len(fn) - Len(ext) + 1, Len(fn)) = ext
    /\ \E i \in 1..(Len(fn) - Len(ext)) : fn[i] # "."

\* the visibleName the claim gives for the filename fn
PolicyVisibleName(fn) ==
    IF \E ext \in StripExts : HasExtension(fn, ext)
    THEN SubSeq(fn, 1, Len(fn) - Len(CHOOSE ext \in StripExts :
                                         HasExtension(fn, ext)))
    ELSE fn

\* what a successful rename to the filename fn leaves of the node n
Renamed(r, n, fn) ==
    r.ret = "OK" =>
        /\ r.w.nodes[n].metadata.visibleName = PolicyVisibleName(fn)
        /\ r.w.nodes[n].file_name = fn

\* C26: in every reachable state, a rename of any node below the root to a
\* free filename fn in any collection, when it succeeds, leaves the node's
\* visibleName equal to fn without its extension when that is exactly
\* .pdf, .djvu, .ps or .epub and equal to fn otherwise, and its filename
\* equal to fn;
\* strip_extension gives that visibleName for every such fn.
C26_RenameNamePolicy ==
    status = "mounted" =>
        /\ \A fn \in RenameNames \cup NameInputs :
              strip_extension(fn) = PolicyVisibleName(fn)
        /\ \A old \in ExistingPaths(nodes) \ {<<>>} :
              \A dir \in {e \in ExistingPaths(nodes) :
                              IsCollection(nodes[node(nodes, e).id])} :
                  \A fn \in {f \in RenameNames :
                                dir \o <<f>> \notin ExistingPaths(nodes)} :
                      Renamed(fs_rename(World(0), Fds, old, dir \o <<fn>>,
                                        [res |-> 0, out |-> Magic_pdf]),
                              node(nodes, old).id, fn)

\* the document was renamed into the folder as "c.epub" and is now "c"
C26_RenamedStripped ==
    /\ status = "mounted"
    /\ "D" \in DOMAIN nodes
    /\ nodes["D"].parent = "F"
    /\ nodes["D"].file_name = <<"c", ".", "e", "p", "u", "b">>
    /\ nodes["D"].metadata.visibleName = <<"c">>
    /\ rmeta["D"].val.visibleName = <<"c">>
    /\ rmeta["D"].val.version = 2

-----------------------------------------------------------------------------
(* C27. how long a NewDocument lasts *)

\* C27: in every reachable state, every NewDocument that some collection
\* lists is held by an open descriptor: once the descriptor create returned
\* is released, no NewDocument remains in a child map.
C27_PendingOnlyWhileOpen ==
    status = "mounted" =>
        \A n \in Listed(nodes) \cap DOMAIN nodes :
            nodes[n].cls = "NewDocument"
                => \E fd \in DOMAIN file_handles : file_handles[fd] = n

-----------------------------------------------------------------------------
(* C28. a temporary file renamed to a name without the dot *)

\* the rows of the table whose magic the buffer of n begins with
Rows(n) == {t \in MagicTable : StartsWith(nodes[n].buf, t[1])}

\* the remote holds the upload of n as the row t gives it, under the
\* filename fn in the collection c
Uploaded(r, n, t, c, fn, conv) ==
    /\ r.ret = "OK"
    /\ n \in DOMAIN r.w.rmeta /\ r.w.rmeta[n].st = "json"
    /\ r.w.rmeta[n].val.visibleName = PolicyVisibleName(fn)
    /\ r.w.rmeta[n].val.parent = c
    /\ n \in DOMAIN r.w.rcontent
    /\ r.w.rcontent[n].val = [fileType |-> t[2]]
    /\ <<n, t[2]>> \in DOMAIN r.w.rpayload
    /\ r.w.rpayload[<<n, t[2]>>] =
          IF t[3] = None THEN nodes[n].buf ELSE conv.out

\* what the rename r of the dot-file n to fn in the collection c leaves
TemporaryRenamed(r, n, c, fn, conv) ==
    Len(nodes[n].buf) > 0 =>
        IF Rows(n) = {} THEN r.ret = "EIO"
        ELSE \A t \in Rows(n) : Uploaded(r, n, t, c, fn, conv)

\* C28: in every reachable state, a rename of a NewDocument whose filename
\* starts with "." to a free filename that does not, in any collection,
\* with a converter that succeeds: when the buffer is not empty and begins
\* with a known magic, the rename succeeds and the remote then holds the
\* node's content record, its payload, and a metadata record with the new
\* visibleName and the new parent; when the buffer is not empty and in no
\* known format, the rename fails with EIO.
C28_TemporaryRenamedUploads ==
    status = "mounted" =>
        \A old \in {e \in ExistingPaths(nodes) \ {<<>>} :
                       /\ nodes[node(nodes, e).id].cls = "NewDocument"
                       /\ StartsWith(nodes[node(nodes, e).id].file_name,
                                     <<".">>)} :
            \A dir \in {e \in ExistingPaths(nodes) :
                            IsCollection(nodes[node(nodes, e).id])} :
                \A fn \in {f \in RenameNames :
                              /\ ~StartsWith(f, <<".">>)
                              /\ dir \o <<f>> \notin ExistingPaths(nodes)} :
                    TemporaryRenamed(
                        fs_rename(World(0), Fds, old, dir \o <<fn>>,
                                  [res |-> 0, out |-> Magic_pdf]),
                        node(nodes, old).id, node(nodes, dir).id, fn,
                        [res |-> 0, out |-> Magic_pdf])

\* the temporary file that held a DjVu file is now "c" in the folder, and
\* the remote holds the PDF it was converted to
C28_DjvuUploaded ==
    /\ status = "mounted"
    /\ \E n \in DOMAIN nodes :
          /\ nodes[n].cls = "NewDocument"
          /\ nodes[n].buf = Magic_djvu
          /\ nodes[n].file_name = <<"c", ".", "d", "j", "v", "u">>
          /\ nodes[n].parent = "F"
          /\ n \in DOMAIN rmeta
          /\ rmeta[n].val.visibleName = <<"c">>
          /\ rmeta[n].val.parent = "F"
          /\ rcontent[n].val = [fileType |-> Str_pdf]
          /\ rpayload[<<n, Str_pdf>>] = Magic_pdf

-----------------------------------------------------------------------------
(* C29. requests on the root directory *)

\* the requests that would create, move or delete the root, with every
\* other path at hand
RootRequests ==
    {fs_create(World(0), Fds, <<>>, FreshId),
     fs_mkdir(World(0), Fds, <<>>, FreshId),
     fs_rmdir(World(0), Fds, <<>>, [res |-> 0, out |-> Magic_pdf])}
    \cup {fs_rename(World(0), Fds, <<>>, new, [res |-> 0, out |-> Magic_pdf]) :
             new \in ExistingPaths(nodes) \cup PathInputs(nodes, NameInputs)}
    \cup {fs_rename(World(0), Fds, old, <<>>, [res |-> 0, out |-> Magic_pdf]) :
             old \in ExistingPaths(nodes)}

\* C29: in every reachable state, create and mkdir on "/", rmdir on "/",
\* and rename with "/" as its source or as its target all fail with EBUSY
\* and leave the nodes, the child maps and the remote as they were; the
\* root stays in the registry and has no parent.
C29_RootBusy ==
    status = "mounted" =>
        /\ \A r \in RootRequests : r.ret = "EBUSY" /\ Untouched(r)
        /\ RootId \in DOMAIN nodes
        /\ nodes[RootId].parent = Unset

-----------------------------------------------------------------------------
(* C30. a notebook is rendered once *)

\* the descriptors open on a notebook
NotebookHandles ==
    {fd \in DOMAIN file_handles :
        /\ nodes[file_handles[fd]].cls = "Document"
        /\ nodes[file_handles[fd]].content.fileType = <<>>}

\* the read r of the notebook n, rendered before: the decoder does not run,
\* nothing is asked of the transport, the bytes come from the rendered file
ServedFromFile(r, n, size, offset) ==
    /\ r.w.decoded = 0
    /\ r.w.reads = 0
    /\ r.ret = "OK"
    /\ r.data = Slice(nodes[n].file[1].data, offset, size)
    /\ Untouched(r)

\* the read r of the notebook n, not rendered before: the decoder runs at
\* most once, and once when the read succeeds, which leaves the rendered
\* file
Materialised(r, n, size, offset) ==
    /\ r.w.decoded \in {0, 1}
    /\ r.ret = "OK" =>
          /\ r.w.decoded = 1
          /\ r.w.nodes[n].file # <<>>
          /\ ~r.w.nodes[n].file[1].remote
          /\ r.data = Slice(r.w.nodes[n].file[1].data, offset, size)
    /\ r.w.readFailAt = 0
          => r.ret = IF Len(rpayload[<<n, Str_lines>>]) > Len(expected_header)
                     THEN "OK" ELSE "SystemExit"

\* the failed read r left the state as it was
FailedUnchanged(r) == r.ret # "OK" => Untouched(r)

\* the failed read r of the notebook n left no rendered file, and the
\* state as it was but for templates of its pages added to the cache
FailedKeepsTemplates(r, n) ==
    r.ret # "OK" =>
        /\ r.w.nodes[n].file = <<>>
        /\ r.w.nodes =
              [nodes EXCEPT ![RootId].templates = r.w.nodes[RootId].templates]
        /\ \A t \in DOMAIN nodes[RootId].templates :
              /\ t \in DOMAIN r.w.nodes[RootId].templates
              /\ r.w.nodes[RootId].templates[t] = nodes[RootId].templates[t]
        /\ \A t \in DOMAIN r.w.nodes[RootId].templates :
              \/ t \in DOMAIN nodes[RootId].templates
              \/ \E i \in DOMAIN rpayload[<<n, Str_pagedata>>] :
                    rpayload[<<n, Str_pagedata>>][i] = t
        /\ r.w.rmeta = rmeta /\ r.w.rcontent = rcontent
        /\ r.w.rpayload = rpayload /\ r.F = Fds

\* C30 as stated: in every reachable state, for every read of a notebook at
\* any offset and size and with any request to the transport failing: if
\* the notebook was rendered before, the decoder does not run and the
\* transport is not used; if not, the decoder runs at most once and the
\* read succeeds only by rendering; and a read that fails leaves the whole
\* state unchanged, caches included.
C30_RenderedOnceFailureCachesNothing ==
    status = "mounted" =>
        \A fd \in NotebookHandles, size \in {2, 8}, offset \in {0, 1} :
            \A fault \in ReadFaults(fd) :
                /\ IF nodes[file_handles[fd]].file # <<>>
                   THEN ServedFromFile(
                            fs_read(Reading(World(0), fault), Fds, size,
                                    offset, fd),
                            file_handles[fd], size, offset)
                   ELSE Materialised(
                            fs_read(Reading(World(0), fault), Fds, size,
                                    offset, fd),
                            file_handles[fd], size, offset)
                /\ FailedUnchanged(fs_read(Reading(World(0), fault), Fds,
                                           size, offset, fd))

\* C30 amended: the same, but a read that fails leaves no rendered file and
\* the nodes and the remote unchanged except that the templates it fetched
\* before it failed stay in the template cache.
C30_RenderedOnce ==
    status = "mounted" =>
        \A fd \in NotebookHandles, size \in {2, 8}, offset \in {0, 1} :
            \A fault \in ReadFaults(fd) :
                /\ IF nodes[file_handles[fd]].file # <<>>
                   THEN ServedFromFile(
                            fs_read(Reading(World(0), fault), Fds, size,
                                    offset, fd),
                            file_handles[fd], size, offset)
                   ELSE Materialised(
                            fs_read(Reading(World(0), fault), Fds, size,
                                    offset, fd),
                            file_handles[fd], size, offset)
                /\ FailedKeepsTemplates(fs_read(Reading(World(0), fault),
                                                Fds, size, offset, fd),
                                        file_handles[fd])

\* the notebook of two pages was rendered over the templates "T" and "U",
\* which the cache holds
C30_RenderedOverTemplates ==
    /\ status = "mounted"
    /\ "N" \in DOMAIN nodes
    /\ nodes["N"].file =
          <<[remote |-> FALSE, data |-> Magic_pdf \o <<"T", "U">>]>>
    /\ DOMAIN nodes[RootId].templates = {"T", "U"}

-----------------------------------------------------------------------------
(* C31. the renderer is restarted however the session ends *)

\* connect() called ssh.exec_command(cmd), and it returned
Issued(cmd) ==
    \E i \in DOMAIN session.calls : session.calls[i] = <<cmd, "ok">>

\* connect() called ssh.exec_command(cmd)
Attempted(cmd) ==
    \E i \in DOMAIN session.calls : session.calls[i][1] = cmd

\* C31: in every reachable state where connect() has ended, by returning,
\* by an exception or by a signal that ended the process, and had issued
\* "systemctl stop xochitl", it has called ssh.exec_command with
\* "systemctl restart xochitl".
C31_RestartOnEveryExit ==
    (session.pc \in {"returned", "killed"} /\ Issued(on_start))
        => Attempted(on_finish)

(***************************************************************************)
(* C32: the structure of the stroke decoder                                *)
(***************************************************************************)

\* the .lines file of the notebook, and the template lists a rendering may
\* be given
NotebookLines == rpayload[<<"N", Str_lines>>]
TemplateLists == {<<>>, <<None>>, <<"T">>, <<"T", "U">>}

\* where the segment records of a file are, first to last
RecordPositions(data) ==
    SelectSeq([i \in 1..Len(data) |-> i],
              LAMBDA i : data[i] = SegmentRecord)

\* sum(segment_count) over all strokes of all layers of all pages
RECURSIVE Sum(_)
Sum(ns) == IF ns = <<>> THEN 0 ELSE Head(ns) + Sum(Tail(ns))
LayerSegments(l) == Sum([i \in 1..Len(l) |-> l[i].nsegments])
PageSegments(p) == Sum([i \in 1..Len(p) |-> LayerSegments(p[i])])
SumSegments(nb) == Sum([i \in 1..Len(nb) |-> PageSegments(nb[i])])

\* the pages of a PDF the renderer wrote: one for each template or blank
\* ground in it
PdfPages(pdf) == Len(SelectSeq(pdf, LAMBDA e : e \in {"page", "T", "U"}))

\* the decoder, given the pages nb encoded: no exception, a page for each
\* page of nb, in the output as well, and the segment records read are
\* those of the file, each once, first to last, as many as nb counts
DecodedAs(st, nb) ==
    /\ st.exc = "none"
    /\ Len(st.pages) = Len(nb)
    /\ StartsWith(st.output, Magic_pdf)
    /\ PdfPages(st.output) = Len(nb)
    /\ st.segs = RecordPositions(NotebookLines)
    /\ Len(st.segs) = SumSegments(nb)
    /\ st.offset = Len(NotebookLines)

\* the decoder refused the file: sys.exit, no page, no record read, nothing
\* written
Rejected(st) ==
    /\ st.exc = "SystemExit"
    /\ st.pages = <<>>
    /\ st.segs = <<>>
    /\ st.output = <<>>

\* C32: in every reachable state, whatever the templates: when the
\* notebook's .lines file encodes N >= 1 pages of layers of strokes, the
\* decoder emits exactly N pages, reads exactly the file's segment records,
\* sum(segment_count) of them, each once and in file order, and the file a
\* read left for the notebook has N pages; when the file has another
\* header, is too short for one or counts no page, the decoder exits with
\* no page and no output, and no read leaves a file for the notebook.
C32_DecoderStructure ==
    /\ \A nb \in NotebookInputs :
          NotebookLines = lines_bytes(nb) =>
              /\ \A t \in TemplateLists :
                    DecodedAs(lines2cairo(NotebookLines, t), nb)
              /\ nodes["N"].file # <<>> =>
                    PdfPages(nodes["N"].file[1].data) = Len(nb)
    /\ NotebookLines \in RejectedInputs =>
          /\ \A t \in TemplateLists : Rejected(lines2cairo(NotebookLines, t))
          /\ nodes["N"].file = <<>>

\* reached: a notebook of two pages, the first of two layers with an erased
\* stroke and then one of two segments, was read and its file has two pages
C32_TwoPagesRead ==
    /\ NotebookLines =
          lines_bytes(<<<<<<Erased, TwoSegments>>, <<TwoSegments>>>>,
                        <<<<TwoSegments>>>>>>)
    /\ nodes["N"].file # <<>>
    /\ PdfPages(nodes["N"].file[1].data) = 2
    /\ Len(lines2cairo(NotebookLines, <<>>).segs) = 7

(***************************************************************************)
(* C33: the tree in memory and the tree a fresh session loads              *)
(***************************************************************************)

\* the rows (node, collection that lists it, filename it is listed under)
\* of the tree below a collection
RECURSIVE TreeBelow(_, _, _)
TreeBelow(ns, id, depth) ==
    IF depth = 0 \/ ~IsCollection(ns[id]) THEN {}
    ELSE UNION {{<<ns[id].children[x], id, x>>}
                \cup TreeBelow(ns, ns[id].children[x], depth - 1) :
                x \in DOMAIN ns[id].children}
Tree(ns) == TreeBelow(ns, RootId, Cardinality(DOMAIN ns))

\* a DocumentRoot constructed from what the tablet holds in w, the metadata
\* files visited in the given order
Reloaded(w, values) ==
    DocumentRoot_init([rmeta |-> w.rmeta, rcontent |-> w.rcontent,
                       rpayload |-> w.rpayload], values, values)

\* the tree of w and the tree a fresh DocumentRoot loads (in some order of
\* the metadata files) have the same rows; a PendingDocument that was not
\* uploaded has no record on the tablet and is left out
Agrees(w) ==
    \E values \in Orders(DOMAIN w.rmeta) :
        /\ Reloaded(w, values).exc = "none"
        /\ Tree(Reloaded(w, values).nodes) =
              {row \in Tree(w.nodes) : row[1] \in DOMAIN w.rmeta}

\* the requests of the kernel in this state that return success
Succeeding ==
    {r \in
        {fs_create(World(0), Fds, path, new_id) :
            path \in PathInputs(nodes, NameInputs)}
        \cup {fs_mkdir(World(0), Fds, path, new_id) :
                 path \in PathInputs(nodes, NameInputs)}
        \cup {fs_rename(World(0), Fds, pc[1], pc[2], pc[3]) :
                 pc \in ExistingPaths(nodes) \X PathInputs(nodes, NameInputs)
                        \X ConvInputs(nodes)}
        \cup {fs_unlink(World(0), Fds, pc[1], pc[2]) :
                 pc \in ExistingPaths(nodes) \X ConvInputs(nodes)}
        \cup {fs_rmdir(World(0), Fds, pc[1], pc[2]) :
                 pc \in ExistingPaths(nodes) \X ConvInputs(nodes)}
        \cup {fs_flush(World(0), Fds, fc[1], fc[2]) :
                 fc \in (DOMAIN file_handles) \X ConvInputs(nodes)}
        \cup {fs_write(World(0), Fds, fd[2], 0, fd[1]) :
                 fd \in (DOMAIN file_handles) \X DataInputs}
        \cup {fs_release(World(0), Fds, fd) : fd \in DOMAIN file_handles} :
     r.ret = "OK"}

\* C33 as stated: in every reachable state in which a DocumentRoot
\* constructed from the tablet has the nodes of the running session's
\* tree, each listed by the same collection under the same filename, every
\* request that returns success leaves a state in which it has them again.
C33_TreeAgreesWithRemote ==
    Agrees(World(0)) => \A r \in Succeeding : Agrees(r.w)

=============================================================================
